---------------------------- MODULE Spec2Model ----------------------------
(***************************************************************************)
(* Progression and mission-completion engine of the hacker-simulation      *)
(* game: StateManager store, EventBus handlers (synchronous), App.addXP,   *)
(* AchievementSystem / LongTermGoalsSystem sweeps, MissionSystem step and   *)
(* mission completion, CommandHandlers with retry counters.                *)
(*                                                                         *)
(* Every handler is one atomic action (the browser runs a handler to       *)
(* completion).  Synchronous EventBus emissions are function calls, so a   *)
(* handler's nested calls are modelled by operators that thread a "world"  *)
(* record w = [st, thr, tasks, lb, g] through the calls in code order.     *)
(***************************************************************************)
EXTENDS Integers, Naturals, Sequences, FiniteSets, TLC

(***************************************************************************)
(* Bounds of the model (not program constants).                            *)
(***************************************************************************)
MaxInflight == 2

MaxRetryCount == 4

MaxNesting == 3

(***************************************************************************)
(* Small helpers.                                                          *)
(***************************************************************************)
Range(s) == {s[i] : i \in 1..Len(s)}

Includes(s, x) == \E i \in 1..Len(s) : s[i] = x

Max2(a, b) == IF a >= b THEN a ELSE b

Min2(a, b) == IF a <= b THEN a ELSE b

(***************************************************************************)
(* ProgressionSystem.  Math.floor(100 * Math.pow(1.15, level - 1)) in      *)
(* IEEE-754 doubles: 100 * 1.15 evaluates to 114.99999999999999, so the    *)
(* value for level 2 is 114; every other entry equals the exact floor.     *)
(***************************************************************************)
XPTable == <<0, 114, 132, 152, 174, 201, 231, 266, 305, 351,
             404, 465, 535, 615, 707, 813, 935, 1076, 1237, 1423,
             1636, 1882, 2164, 2489, 2862, 3291, 3785, 4353, 5006, 5757,
             6621, 7614, 8756, 10069, 11580, 13317, 15315, 17612, 20254, 23292,
             26786, 30804, 35424, 40738, 46849, 53876, 61958, 71252, 81940, 94231>>

getXPForLevel(level) ==
    IF level <= 1 THEN 0
    ELSE IF level <= Len(XPTable) THEN XPTable[level]
    ELSE XPTable[Len(XPTable)] * 2

RECURSIVE getTotalXPForLevel(_)
getTotalXPForLevel(level) ==
    IF level <= 1 THEN 0
    ELSE getTotalXPForLevel(level - 1) + getXPForLevel(level - 1)

\* the while loop of getLevelFromXP, one iteration per call
RECURSIVE LevelLoop(_, _, _)
LevelLoop(level, xpNeeded, totalXP) ==
    IF xpNeeded <= totalXP
    THEN LET n == xpNeeded + getXPForLevel(level)
         IN  IF n <= totalXP /\ level < Len(XPTable)
             THEN LevelLoop(level + 1, n, totalXP)
             ELSE level
    ELSE level

getLevelFromXP(totalXP) == LevelLoop(1, 0, totalXP)

(***************************************************************************)
(* BadgeSystem.BADGES: only xpBonus, decryptSuccess and allSuccessRate are *)
(* read by the engine.  applyBadgeEffects multiplies doubles; the XP bonus *)
(* Math.floor(amount * (xpBonus - 1.0)) evaluates, in doubles, to          *)
(*   1.1 - 1.0       = 0.10000000000000009  -> floor(amount / 10)          *)
(*   1.2 - 1.0       = 0.19999999999999996  -> one less than amount / 5    *)
(*                                             when 5 divides amount       *)
(*   1.1 * 1.2 - 1.0 = 0.32000000000000006  -> floor(32 * amount / 100)    *)
(***************************************************************************)
BadgeIds == {"hacker_badge", "interceptor_badge", "decryptor_badge",
             "firewall_master", "speed_demon", "elite_hacker"}

xpBonusAmount(amount, badges) ==
    LET h == Includes(badges, "hacker_badge")
        e == Includes(badges, "elite_hacker")
    IN  IF h /\ e THEN (32 * amount) \div 100
        ELSE IF h THEN amount \div 10
        ELSE IF e THEN IF amount > 0 /\ amount % 5 = 0
                       THEN (amount \div 5) - 1
                       ELSE amount \div 5
        ELSE 0

(***************************************************************************)
(* Static registries, in declaration order (Object.entries / Object.keys   *)
(* iterate string keys in insertion order).                                *)
(***************************************************************************)
AchOrder == <<"first_mission", "speed_demon", "perfectionist", "night_owl",
              "command_master", "completionist", "level_10", "level_20">>

AchIds == Range(AchOrder)

AchRewardXp(id) ==
    CASE id = "first_mission" -> 25
      [] id = "speed_demon"   -> 50
      [] id = "perfectionist" -> 100
      [] id = "night_owl"     -> 75
      [] id = "command_master" -> 150
      [] id = "completionist" -> 500
      [] id = "level_10"      -> 100
      [] id = "level_20"      -> 200

\* reward.badge, "" for null
AchRewardBadge(id) ==
    CASE id = "first_mission" -> "hacker_badge"
      [] id = "speed_demon"   -> "speed_demon"
      [] id = "level_20"      -> "elite_hacker"
      [] OTHER                -> ""

\* reward.title, "" when the reward has no title
AchRewardTitle(id) == IF id = "completionist" THEN "The Ultimate Hacker" ELSE ""

AllCommands == {"help", "clear", "scan", "bruteforce", "decrypt", "ping",
                "missions", "logs", "whoami", "date", "echo"}

SpeedDemonMs == 120000

\* ACHIEVEMENTS[id].check(gameState)
AchCheck(id, gs) ==
    CASE id = "first_mission" -> gs.completedMissions >= 1
      [] id = "speed_demon"   -> gs.fastest # -1 /\ gs.fastest < SpeedDemonMs
      [] id = "perfectionist" -> gs.perfectMissions >= 5
      [] id = "night_owl"     -> gs.nightMissions >= 10
      [] id = "command_master" -> AllCommands \subseteq gs.usedCommands
      [] id = "completionist" ->
            /\ Len(gs.missions) > 0
            /\ \A i \in 1..Len(gs.missions) : gs.missions[i].status = "completed"
      [] id = "level_10"      -> gs.level >= 10
      [] id = "level_20"      -> gs.level >= 20

GoalOrder == <<"collect_all_badges", "reach_level_50", "complete_100_missions",
               "perfect_50_missions", "30_day_streak", "top_10_leaderboard">>

GoalIds == Range(GoalOrder)

GoalRewardXp(id) ==
    CASE id = "collect_all_badges"    -> 1000
      [] id = "reach_level_50"        -> 2000
      [] id = "complete_100_missions" -> 1500
      [] id = "perfect_50_missions"   -> 2000
      [] id = "30_day_streak"         -> 2500
      [] id = "top_10_leaderboard"    -> 3000

GoalRewardTitle(id) ==
    CASE id = "collect_all_badges"    -> "Badge Master"
      [] id = "reach_level_50"        -> "Level 50 Master"
      [] id = "complete_100_missions" -> "Mission Master"
      [] id = "perfect_50_missions"   -> "Perfectionist Master"
      [] id = "30_day_streak"         -> "Dedicated Hacker"
      [] id = "top_10_leaderboard"    -> "Top 10 Player"

\* isGoalCompleted: progress.current >= progress.target.  topLeaderboardRanks
\* is written by no code of the repository, so the last goal reads [].
isGoalCompleted(id, gs) ==
    CASE id = "collect_all_badges"    -> Len(gs.unlockedBadges) >= Cardinality(BadgeIds)
      [] id = "reach_level_50"        -> gs.level >= 50
      [] id = "complete_100_missions" -> gs.completedMissions >= 100
      [] id = "perfect_50_missions"   -> gs.perfectMissions >= 50
      [] id = "30_day_streak"         -> gs.loginStreak >= 30
      [] id = "top_10_leaderboard"    -> FALSE

MilestoneLevels == {5, 10, 15, 20, 25, 30}

MilestoneItem(level) ==
    CASE level = 5  -> "advanced_scanner"
      [] level = 10 -> "stealth_mode"
      [] level = 15 -> "auto_decrypt"
      [] level = 20 -> "elite_hacker"
      [] level = 25 -> "neon_terminal"
      [] level = 30 -> "mission_editor"

(***************************************************************************)
(* The dashboard subscriber.  DashboardController subscribes the throttled *)
(* updateDashboard to the keys xp, level, completedMissions, missions and  *)
(* activities; activity:add ends in state.set('activities').  throttle()   *)
(* runs the function when inThrottle is false and then sets inThrottle     *)
(* (cleared by a 50 ms timer).  updateDashboard overwrites the stored      *)
(* level with getXPProgress(xp).level when the two differ.                 *)
(***************************************************************************)
updateDashboard(w) ==
    [w EXCEPT !.st.level = getLevelFromXP(w.st.xp)]

DashNotify(w) ==
    IF w.thr THEN w
    ELSE [updateDashboard(w) EXCEPT !.thr = TRUE]

\* one emission of an unlock-type event (xp:add, badge:unlocked,
\* achievement:unlocked, goal:completed, milestone:unlocked)
Emitted(w) == [w EXCEPT !.g.ev = @ + 1]

(***************************************************************************)
(* BadgeSystem.unlockBadge; badge:unlocked -> App.showBadgeUnlock ->       *)
(* activity:add.                                                           *)
(***************************************************************************)
unlockBadge(badgeId, w) ==
    IF Includes(w.st.unlockedBadges, badgeId) THEN w
    ELSE LET w1 == [w EXCEPT !.st.unlockedBadges = Append(@, badgeId),
                             !.st.has = @ \cup {"unlockedBadges"}]
         IN  IF badgeId \in BadgeIds THEN DashNotify(Emitted(w1)) ELSE w1

(***************************************************************************)
(* CollectionSystem.unlockCollectible for the two collections the engine   *)
(* writes; collectible:unlocked only shows a toast.                        *)
(***************************************************************************)
unlockCollectible(type, id, w) ==
    IF type = "titles"
    THEN IF Includes(w.st.colTitles, id) THEN w
         ELSE [w EXCEPT !.st.colTitles = Append(@, id)]
    ELSE IF type = "themes"
    THEN IF Includes(w.st.colThemes, id) THEN w
         ELSE [w EXCEPT !.st.colThemes = Append(@, id)]
    ELSE w

(***************************************************************************)
(* RewardSystem.checkMilestones: returns the world and whether a milestone *)
(* was newly unlocked.  milestone:unlocked -> showMilestoneUnlock ->       *)
(* activity:add.                                                           *)
(***************************************************************************)
checkMilestones(level, w) ==
    IF level \notin MilestoneLevels THEN [w |-> w, hit |-> FALSE]
    ELSE IF Includes(w.st.unlockedItems, MilestoneItem(level))
    THEN [w |-> w, hit |-> FALSE]
    ELSE LET w1 == [w EXCEPT !.st.unlockedItems = Append(@, MilestoneItem(level)),
                             !.st.has = @ \cup {"unlockedItems"}]
         IN  [w |-> DashNotify(Emitted(w1)), hit |-> TRUE]

\* ghost: a sweep takes its snapshot while the XP award of the completion of
\* mission g.ctx is being processed
Observe(w) ==
    IF w.g.ctx = 0 THEN w
    ELSE [w EXCEPT !.g.obsSeen = TRUE,
                   !.g.obsOk = @ /\ w.st.missions[w.g.ctx].status = "completed"
                                 /\ w.st.completedMissions = w.g.ctxCount]

(***************************************************************************)
(* App.addXP, AchievementSystem.checkAchievements and                      *)
(* LongTermGoalsSystem.checkGoals call each other through the synchronous  *)
(* xp:add event.  A sweep reads `stateManager.get(key) || []`: when the    *)
(* key is stored, the sweep pushes into the stored array itself (aliased); *)
(* when it is absent, the sweep pushes into a fresh local array that it    *)
(* stores only at its end.  The predicates read the getState() snapshot    *)
(* taken at the start of the sweep.                                        *)
(***************************************************************************)
RECURSIVE addXP(_, _)
RECURSIVE AchLoop(_, _, _, _, _, _)
RECURSIVE GoalLoop(_, _, _, _, _, _)

\* sequencing: the value of one statement handed to the statements after it
Then(x, rest(_)) == rest(x)

\* the first entry at or after position i that the loop does not skip
\* (0 when there is none); the store changes only while an entry is granted
nextAchievement(unlocked, gs, i) ==
    LET open == {j \in i..Len(AchOrder) :
                    ~Includes(unlocked, AchOrder[j]) /\ AchCheck(AchOrder[j], gs)}
    IN  IF open = {} THEN 0 ELSE CHOOSE j \in open : \A h \in open : j <= h

checkAchievementsR(w) ==
    Then(Observe(w), LAMBDA w0 :
    Then(AchLoop(w0, w0.st, "unlockedAchievements" \in w0.st.has, <<>>, <<>>, 1),
         LAMBDA r :
    IF r.newly = <<>> THEN r
    ELSE \* achievement:unlocked -> showAchievementUnlock -> activity:add
         [r EXCEPT !.w = DashNotify(
            [r.w EXCEPT !.st.unlockedAchievements =
                            IF "unlockedAchievements" \in w0.st.has
                            THEN r.w.st.unlockedAchievements ELSE r.local,
                        !.st.has = @ \cup {"unlockedAchievements"},
                        !.g.ev = @ + Len(r.newly)])]))

checkAchievements(w) == checkAchievementsR(w).w

\* the badge and the title of an unlocked achievement
achievementReward(id, w) ==
    Then(IF AchRewardBadge(id) # "" THEN unlockBadge(AchRewardBadge(id), w) ELSE w,
         LAMBDA wBadge :
    IF AchRewardTitle(id) # ""
    THEN [wBadge EXCEPT !.st.playerTitle = AchRewardTitle(id),
                        !.tasks = Append(@, "collectTitle")]
    ELSE wBadge)

\* the loop body for the entries from position i on
AchLoop(w, gs, aliased, local, newly, i) ==
    Then(nextAchievement(IF aliased THEN w.st.unlockedAchievements ELSE local,
                         gs, i), LAMBDA j :
    IF j = 0 THEN [w |-> w, local |-> local, newly |-> newly]
    ELSE Then(addXP([Emitted(IF aliased
                             THEN [w EXCEPT !.st.unlockedAchievements =
                                                Append(@, AchOrder[j])]
                             ELSE w)
                       EXCEPT !.g.achXp[AchOrder[j]] = @ + 1],
                    AchRewardXp(AchOrder[j])), LAMBDA wXp :
         IF wXp.g.over THEN [w |-> wXp, local |-> local, newly |-> newly]
         ELSE AchLoop(achievementReward(AchOrder[j], wXp), gs, aliased,
                      IF aliased THEN local ELSE Append(local, AchOrder[j]),
                      Append(newly, AchOrder[j]), j + 1)))

nextGoal(completed, gs, i) ==
    LET open == {j \in i..Len(GoalOrder) :
                    ~Includes(completed, GoalOrder[j]) /\ isGoalCompleted(GoalOrder[j], gs)}
    IN  IF open = {} THEN 0 ELSE CHOOSE j \in open : \A h \in open : j <= h

checkGoalsR(w) ==
    Then(Observe(w), LAMBDA w0 :
    Then(GoalLoop(w0, w0.st, "completedGoals" \in w0.st.has, <<>>, <<>>, 1),
         LAMBDA r :
    IF r.newly = <<>> THEN r
    ELSE [r EXCEPT !.w = [r.w EXCEPT !.st.completedGoals =
                                         IF "completedGoals" \in w0.st.has
                                         THEN r.w.st.completedGoals ELSE r.local,
                                     !.st.has = @ \cup {"completedGoals"}]]))

checkGoals(w) == checkGoalsR(w).w

GoalLoop(w, gs, aliased, local, newly, i) ==
    Then(nextGoal(IF aliased THEN w.st.completedGoals ELSE local, gs, i),
         LAMBDA j :
    IF j = 0 THEN [w |-> w, local |-> local, newly |-> newly]
    ELSE Then(addXP([Emitted(IF aliased
                             THEN [w EXCEPT !.st.completedGoals =
                                                Append(@, GoalOrder[j])]
                             ELSE w)
                       EXCEPT !.g.goalXp[GoalOrder[j]] = @ + 1],
                    GoalRewardXp(GoalOrder[j])), LAMBDA wXp :
         IF wXp.g.over THEN [w |-> wXp, local |-> local, newly |-> newly]
         ELSE \* playerTitle; goal:completed -> toast, activity:add
              GoalLoop(DashNotify(Emitted(
                          [wXp EXCEPT !.st.playerTitle = GoalRewardTitle(GoalOrder[j])])),
                       gs, aliased,
                       IF aliased THEN local ELSE Append(local, GoalOrder[j]),
                       Append(newly, GoalOrder[j]), j + 1)))

\* the collectibles of the level-up branch (app.js 700-711)
levelCollectibles(newLevel, w) ==
    Then(IF newLevel >= 25
         THEN unlockCollectible("themes", "neon_terminal", w) ELSE w, LAMBDA w5 :
    IF newLevel >= 20
    THEN unlockCollectible("titles", "elite_hacker", w5) ELSE w5)

\* the level-up branch of addXP (app.js 676-712); g.depth counts the
\* level-up branches that are on the call stack
LevelUp(w, newLevel) ==
    Then(DashNotify([w EXCEPT !.st.level = newLevel, !.g.luRan = TRUE,
                              !.g.depth = @ + 1]), LAMBDA w1 :
    \* activity:add for the milestone message and for the level-up
    Then(checkAchievements(DashNotify(checkMilestones(newLevel, w1).w)),
         LAMBDA w3 :
    IF w3.g.over THEN w3
    ELSE Then(checkGoals(w3), LAMBDA w4 :
         IF w4.g.over THEN w4
         ELSE [levelCollectibles(newLevel, w4) EXCEPT !.g.depth = @ - 1])))

\* g.over marks a run that needs more than MaxNesting nested level-up
\* branches; such runs are outside the bound (Commit refuses them)
addXP(w, amount) ==
    IF w.g.over THEN w
    ELSE
    \* stateManager.set('xp') notifies the dashboard subscriber
    Then(DashNotify([w EXCEPT !.st.xp =
                        @ + amount + xpBonusAmount(amount, w.st.unlockedBadges)]),
         LAMBDA w1 :
    \* currentLevel is read after the set; the last statement is
    \* this.dashboardController.updateDashboard()
    DashNotify(
        IF getLevelFromXP(w1.st.xp) > w1.st.level
        THEN IF w1.g.depth >= MaxNesting
             THEN [w1 EXCEPT !.g.over = TRUE]
             ELSE LevelUp(w1, getLevelFromXP(w1.st.xp))
        ELSE [w1 EXCEPT !.g.luMissed =
                            @ \/ (getLevelFromXP(w1.st.xp) > w.st.level)]))

(***************************************************************************)
(* Text.  Strings the engine inspects are sequences of one-character       *)
(* strings, so that String.includes, toLowerCase and the /\d+/ match of    *)
(* the reward text are computed as the code computes them.                 *)
(***************************************************************************)
Upper == <<"A","B","C","D","E","F","G","H","I","J","K","L","M",
           "N","O","P","Q","R","S","T","U","V","W","X","Y","Z">>

Lower == <<"a","b","c","d","e","f","g","h","i","j","k","l","m",
           "n","o","p","q","r","s","t","u","v","w","x","y","z">>

toLowerChar(c) ==
    IF \E i \in 1..26 : Upper[i] = c
    THEN Lower[CHOOSE i \in 1..26 : Upper[i] = c]
    ELSE c

toLowerCase(t) == [i \in 1..Len(t) |-> toLowerChar(t[i])]

\* String.prototype.includes
includes(t, k) ==
    \E i \in 0..(Len(t) - Len(k)) : \A j \in 1..Len(k) : t[i + j] = k[j]

Digits == <<"0","1","2","3","4","5","6","7","8","9">>

IsDigit(c) == \E d \in 1..10 : Digits[d] = c

DigitVal(c) == (CHOOSE d \in 1..10 : Digits[d] = c) - 1

\* parseInt of the digit run that starts at position i
RECURSIVE DigitRun(_, _, _)
DigitRun(t, i, acc) ==
    IF i <= Len(t) /\ IsDigit(t[i])
    THEN DigitRun(t, i + 1, 10 * acc + DigitVal(t[i]))
    ELSE acc

DefaultRewardXp == 50

\* mission.reward.match(/\d+/) ? parseInt(match) : 50
parseRewardXp(reward) ==
    IF \E i \in 1..Len(reward) : IsDigit(reward[i])
    THEN LET first == CHOOSE i \in 1..Len(reward) :
                         /\ IsDigit(reward[i])
                         /\ \A j \in 1..(i - 1) : ~IsDigit(reward[j])
         IN  DigitRun(reward, first, 0)
    ELSE DefaultRewardXp

\* commandPatterns of completeMatchingMissionSteps; {} for any other command
commandPatterns(command) ==
    CASE command = "scan" ->
        {<<"s", "c", "a", "n">>,
         <<"l", "o", "c", "a", "t", "e">>,
         <<"n", "e", "t", "w", "o", "r", "k">>,
         <<"t", "r", "a", "f", "f", "i", "c">>,
         <<"p", "o", "r", "t", "s">>,
         <<"f", "i", "r", "e", "w", "a", "l", "l">>,
         <<"m", "o", "n", "i", "t", "o", "r">>}
      [] command = "decrypt" ->
        {<<"d", "e", "c", "r", "y", "p", "t">>,
         <<"h", "a", "s", "h">>,
         <<"e", "n", "c", "r", "y", "p", "t", "i", "o", "n">>,
         <<"c", "r", "a", "c", "k">>,
         <<"d", "e", "c", "o", "d", "e">>,
         <<"a", "n", "a", "l", "y", "z", "e">>}
      [] command = "bruteforce" ->
        {<<"b", "r", "u", "t", "e">>,
         <<"f", "o", "r", "c", "e">>,
         <<"a", "t", "t", "a", "c", "k">>,
         <<"r", "e", "c", "o", "v", "e", "r">>,
         <<"p", "a", "s", "s", "w", "o", "r", "d">>,
         <<"c", "r", "a", "c", "k">>}
      [] OTHER -> {}

stepMatches(command, text) ==
    \E k \in commandPatterns(command) : includes(toLowerCase(text), toLowerCase(k))

(***************************************************************************)
(* Mission content (external input).  mission-01 is the fixture of the     *)
(* integration test; the other texts are those of the procedural           *)
(* generator.                                                              *)
(***************************************************************************)
TxtScanFiles == <<"S", "c", "a", "n", " ", "f", "o", "r", " ", "p", "a", "s", "s", "w", "o", "r", "d", " ", "f", "i", "l", "e", "s", " ", "i", "n", " ", "t", "h", "e", " ", "s", "y", "s", "t", "e", "m">>

TxtDecryptHash == <<"D", "e", "c", "r", "y", "p", "t", " ", "t", "h", "e", " ", "p", "a", "s", "s", "w", "o", "r", "d", " ", "h", "a", "s", "h">>

TxtBruteForce == <<"R", "u", "n", " ", "b", "r", "u", "t", "e", " ", "f", "o", "r", "c", "e", " ", "a", "t", "t", "a", "c", "k">>

TxtRecover == <<"R", "e", "c", "o", "v", "e", "r", " ", "a", "n", "d", " ", "v", "e", "r", "i", "f", "y", " ", "p", "a", "s", "s", "w", "o", "r", "d">>

TxtScanNet == <<"S", "c", "a", "n", " ", "t", "h", "e", " ", "n", "e", "t", "w", "o", "r", "k", " ", "f", "o", "r", " ", "t", "a", "r", "g", "e", "t", "s">>

TxtDecryptFile == <<"D", "e", "c", "r", "y", "p", "t", " ", "t", "h", "e", " ", "e", "n", "c", "r", "y", "p", "t", "e", "d", " ", "f", "i", "l", "e">>

TxtMonitor == <<"M", "o", "n", "i", "t", "o", "r", " ", "n", "e", "t", "w", "o", "r", "k", " ", "t", "r", "a", "f", "f", "i", "c">>

TxtCrackKey == <<"C", "r", "a", "c", "k", " ", "t", "h", "e", " ", "e", "n", "c", "r", "y", "p", "t", "i", "o", "n", " ", "k", "e", "y">>

TxtExploit == <<"E", "x", "p", "l", "o", "i", "t", " ", "s", "y", "s", "t", "e", "m", " ", "v", "u", "l", "n", "e", "r", "a", "b", "i", "l", "i", "t", "i", "e", "s">>

TxtBypass == <<"B", "y", "p", "a", "s", "s", " ", "s", "e", "c", "u", "r", "i", "t", "y", " ", "m", "e", "a", "s", "u", "r", "e", "s">>

Rew50Badge == <<"5", "0", " ", "X", "P", " ", "+", " ", "H", "a", "c", "k", "e", "r", " ", "B", "a", "d", "g", "e">>

Rew100 == <<"1", "0", "0", " ", "X", "P">>

RewBadgeOnly == <<"E", "l", "i", "t", "e", " ", "B", "a", "d", "g", "e">>

Rew150 == <<"1", "5", "0", " ", "X", "P">>

(***************************************************************************)
(* LeaderboardSystem.  A board is the stored array of one mission; an      *)
(* entry keeps the fields the engine compares.                             *)
(***************************************************************************)
DefaultTimeLimit == 600000

LeaderboardReadLimit == 10

LeaderboardKeep == 100

RankReadLimit == 1000

\* variant: the three boundaries are exclusive
calculateTimeBonusExclusive(timeTaken, estimatedTime) ==
    IF 2 * timeTaken < estimatedTime THEN 500
    ELSE IF 4 * timeTaken < 3 * estimatedTime THEN 300
    ELSE IF timeTaken < estimatedTime THEN 100
    ELSE 0

\* estimatedTime * 0.5 and * 0.75 are exact in doubles for these integers
calculateTimeBonus(timeTaken, estimatedTime) ==
    IF 2 * timeTaken <= estimatedTime THEN 500
    ELSE IF 4 * timeTaken <= 3 * estimatedTime THEN 300
    ELSE IF timeTaken <= estimatedTime THEN 100
    ELSE 0

calculateEfficiencyBonus(retries, stepsCompleted) ==
    IF retries = 0 THEN 300
    ELSE IF retries = 1 THEN 150
    ELSE IF retries = 2 THEN 50
    ELSE 0

\* the multiplier in tenths; 1.0 for a difficulty that is not in the table
getDifficultyMultiplier10(difficulty) ==
    CASE difficulty = "easy"      -> 10
      [] difficulty = "medium"    -> 15
      [] difficulty = "hard"      -> 20
      [] difficulty = "very_hard" -> 30
      [] OTHER                    -> 10

\* mission.retries is written by no code of the repository: retries || 0 = 0
calculateScore(mission, timeTaken, retries) ==
    LET timeBonus == calculateTimeBonus(timeTaken,
                        IF mission.timeLimit # 0 THEN mission.timeLimit
                        ELSE DefaultTimeLimit)
        efficiencyBonus == calculateEfficiencyBonus(retries, Len(mission.steps))
    IN  ((1000 + timeBonus + efficiencyBonus)
            * getDifficultyMultiplier10(mission.difficulty)) \div 10

getLeaderboard(board, limit) == SubSeq(board, 1, Min2(Len(board), limit))

\* Array.prototype.sort((a, b) => b.score - a.score) is stable: insertion
\* of each entry behind the entries that do not score less
RECURSIVE InsertDesc(_, _)
InsertDesc(sorted, e) ==
    IF sorted = <<>> THEN <<e>>
    ELSE IF Head(sorted).score >= e.score
    THEN <<Head(sorted)>> \o InsertDesc(Tail(sorted), e)
    ELSE <<e>> \o sorted

RECURSIVE SortDesc(_)
SortDesc(b) ==
    IF b = <<>> THEN <<>>
    ELSE InsertDesc(SortDesc(SubSeq(b, 1, Len(b) - 1)), b[Len(b)])

\* variant: unshift in place of push
submitScoreUnshift(board, playerId, score) ==
    LET pushed == <<[playerId |-> playerId, score |-> score]>>
                     \o getLeaderboard(board, LeaderboardReadLimit)
        sorted == SortDesc(pushed)
    IN  SubSeq(sorted, 1, Min2(Len(sorted), LeaderboardKeep))

\* the board that submitScore stores
submitScore(board, playerId, score) ==
    LET pushed == Append(getLeaderboard(board, LeaderboardReadLimit),
                         [playerId |-> playerId, score |-> score])
        sorted == SortDesc(pushed)
    IN  SubSeq(sorted, 1, Min2(Len(sorted), LeaderboardKeep))

getPlayerRank(board, playerId) ==
    LET top == getLeaderboard(board, RankReadLimit)
    IN  IF \E i \in 1..Len(top) : top[i].playerId = playerId
        THEN CHOOSE i \in 1..Len(top) :
                /\ top[i].playerId = playerId
                /\ \A j \in 1..(i - 1) : top[j].playerId # playerId
        ELSE 0

(***************************************************************************)
(* MissionTypes.checkMissionTypeRequirements: only BOSS has requirements.  *)
(***************************************************************************)
MissionTypeRequires(type) ==
    IF type = "BOSS" THEN {"level_10", "all_story_complete"} ELSE {}

checkMissionTypeRequirements(type, gs) ==
    LET requirements == MissionTypeRequires(type)
        story == {i \in 1..Len(gs.missions) : gs.missions[i].type = "STORY"}
    IN  /\ ("level_10" \in requirements) => gs.level >= 10
        /\ ("all_story_complete" \in requirements) =>
              /\ story # {}
              /\ \A i \in story : gs.missions[i].status = "completed"

(***************************************************************************)
(* DailyChallengeSystem.  The challenge type is fixed by the date; a       *)
(* challenge is [type, status, expired], or NoChallenge when the key is    *)
(* absent.  successfulDecrypts is written by no code of the repository, so *)
(* the decrypt objective compares undefined >= 1.                          *)
(***************************************************************************)
ChallengeTypes == {"speed_run", "perfect_run", "command_master",
                   "combo_challenge", "puzzle_solve"}

NoChallenge == [type |-> "none", status |-> "none", expired |-> TRUE]

DailyChallengeXp == 200

checkCompletion(challenge, gs) ==
    CASE challenge.type = "speed_run"       -> gs.fastest # -1 /\ gs.fastest < 120000
      [] challenge.type = "perfect_run"     -> gs.perfectMissions >= 1
      [] challenge.type = "command_master"  -> Cardinality(gs.usedCommands) >= 5
      [] challenge.type = "combo_challenge" -> gs.dailyToday >= 3
      [] challenge.type = "puzzle_solve"    -> FALSE
      [] OTHER                              -> FALSE

getCurrentDailyChallenge(st) ==
    IF st.dailyChallenge.type = "none" \/ st.dailyChallenge.expired
    THEN NoChallenge
    ELSE st.dailyChallenge

completeDailyChallenge(w) ==
    LET challenge == getCurrentDailyChallenge(w.st)
    IN  IF challenge = NoChallenge \/ ~checkCompletion(challenge, w.st) THEN w
        ELSE \* daily:challenge:complete -> toast, activity:add
             DashNotify(
                addXP([Emitted([w EXCEPT !.st.dailyChallenge.status = "completed",
                                         !.st.dailyToday = @ + 1])
                         EXCEPT !.g.dailyXp = @ + 1],
                      DailyChallengeXp))

(***************************************************************************)
(* MissionSystem.  A mission is                                            *)
(*   [id, type, difficulty, timeLimit, solutions, status, progress,        *)
(*    reward, started, steps], a step [id, text, completed];               *)
(* timeLimit 0 stands for a mission without the field, solutions is the    *)
(* number of entries of mission.solutions, started stands for a set        *)
(* startTime.  step.failed is written by no code of the repository.  env   *)
(* carries the clock readings of the call: the time since startTime and    *)
(* whether the hour is before 6.                                           *)
(***************************************************************************)
\* variant: Math.floor in place of Math.round
floorProgress(completedSteps, totalSteps) ==
    (100 * completedSteps) \div totalSteps

\* Math.round((completedSteps / totalSteps) * 100)
roundProgress(completedSteps, totalSteps) ==
    (200 * completedSteps + totalSteps) \div (2 * totalSteps)

completedSteps(mission) ==
    Cardinality({k \in 1..Len(mission.steps) : mission.steps[k].completed})

allCompleted(mission) ==
    \A k \in 1..Len(mission.steps) : mission.steps[k].completed

\* missions.findIndex(m => m.id === id), 0 for -1
findMission(missions, id) ==
    IF \E i \in 1..Len(missions) : missions[i].id = id
    THEN CHOOSE i \in 1..Len(missions) :
            /\ missions[i].id = id
            /\ \A j \in 1..(i - 1) : missions[j].id # id
    ELSE 0

\* mission.steps.find(s => s.id === id), 0 for undefined
findStep(mission, id) ==
    IF \E k \in 1..Len(mission.steps) : mission.steps[k].id = id
    THEN CHOOSE k \in 1..Len(mission.steps) :
            /\ mission.steps[k].id = id
            /\ \A j \in 1..(k - 1) : mission.steps[j].id # id
    ELSE 0

PlayerId == "player"

\* lines 473-476: status and counter, both stored
markCompleted(w, i) ==
    LET w1 == [w EXCEPT !.st.missions[i].status = "completed",
                        !.st.completedMissions = @ + 1]
    IN  DashNotify(w1)

\* lines 479-520: statistics, first-mission badge import, player id
recordCompletionStats(w, i, env) ==
    LET mission == w.st.missions[i]
        completionTime == IF mission.started THEN env.elapsed ELSE 0
        fastest1 == IF w.st.fastest = -1 \/ completionTime < w.st.fastest
                    THEN completionTime ELSE w.st.fastest
    IN  [w EXCEPT !.st.fastest = fastest1,
                  !.st.perfectMissions = @ + 1,
                  !.st.nightMissions = IF env.night THEN @ + 1 ELSE @,
                  !.st.dailyToday = @ + 1,
                  !.st.has = @ \cup {"playerId"},
                  !.tasks = IF w.st.completedMissions = 1
                            THEN Append(@, "hackerBadge") ELSE @]

\* lines 522-528
submitMissionScore(w, i, env) ==
    LET mission == w.st.missions[i]
        completionTime == IF mission.started THEN env.elapsed ELSE 0
        score == calculateScore(mission, completionTime, 0)
    IN  [w EXCEPT !.lb[mission.id] = submitScore(@, PlayerId, score),
                  !.g.lbSubs[i] = @ + 1]

\* lines 531-533; the ghost fields record what the store holds when the
\* event is emitted and while it is processed
awardMissionXp(w, i, expected) ==
    [addXP([Emitted(w) EXCEPT
               !.g.rewardXp[i] = @ + 1,
               !.g.ctx = i,
               !.g.ctxCount = expected,
               !.g.emitOk = @ /\ w.st.missions[i].status = "completed"
                              /\ w.st.completedMissions = expected],
           parseRewardXp(w.st.missions[i].reward))
       EXCEPT !.g.ctx = 0]

\* variant: the next mission is unlocked whatever its type requires
unlockNextMissionUnchecked(w, i) ==
    IF /\ i < Len(w.st.missions)
       /\ w.st.missions[i + 1].status = "locked"
    THEN DashNotify([w EXCEPT !.st.missions[i + 1].status = "active"])
    ELSE w

\* lines 552-566
unlockNextMission(w, i) ==
    IF /\ i < Len(w.st.missions)
       /\ w.st.missions[i + 1].status = "locked"
       /\ checkMissionTypeRequirements(w.st.missions[i + 1].type, w.st)
    THEN DashNotify([w EXCEPT !.st.missions[i + 1].status = "active"])
    ELSE w

\* history: what one call of completeMission did to the statuses.  before
\* is the world at the call, atUnlock the world when the requirements are
\* read, after the world at the return
unlockFrame(before, atUnlock, after, i) ==
    /\ \A j \in 1..Len(before.st.missions) :
          j \notin {i, i + 1} =>
             after.st.missions[j].status = before.st.missions[j].status
    /\ after.st.missions[i].status = "completed"
    /\ i < Len(before.st.missions) =>
          after.st.missions[i + 1].status =
             IF /\ before.st.missions[i + 1].status = "locked"
                /\ checkMissionTypeRequirements(before.st.missions[i + 1].type,
                                                atUnlock.st)
             THEN "active"
             ELSE before.st.missions[i + 1].status

\* variant: the award comes before the status and the counter
completeMissionAwardFirst(w, i, env) ==
    Then(markCompleted(
            awardMissionXp(
               submitMissionScore(recordCompletionStats(w, i, env), i, env),
               i, w.st.completedMissions + 1), i), LAMBDA w4 :
    IF w4.g.over THEN w4
    ELSE Then(completeDailyChallenge(DashNotify(w4)), LAMBDA w6 :
         IF w6.g.over THEN w6
         ELSE [unlockNextMission(w6, i) EXCEPT
                  !.tasks = Append(@, "sweep"),
                  !.g.complCount[i] = @ + 1,
                  !.g.frameOk = @ /\ unlockFrame(w, w6, unlockNextMission(w6, i), i)]))

completeMission(w, i, env) ==
    Then(awardMissionXp(
            submitMissionScore(
               recordCompletionStats(markCompleted(w, i), i, env), i, env),
            i, w.st.completedMissions + 1), LAMBDA w4 :
    IF w4.g.over THEN w4
    ELSE \* activity:add, then the daily challenge
         Then(completeDailyChallenge(DashNotify(w4)), LAMBDA w6 :
         IF w6.g.over THEN w6
         ELSE [unlockNextMission(w6, i) EXCEPT
                  !.tasks = Append(@, "sweep"),
                  !.g.complCount[i] = @ + 1,
                  !.g.frameOk = @ /\ unlockFrame(w, w6, unlockNextMission(w6, i), i)]))

\* variant: the completion starts as soon as some step is completed
completeMissionStepOnFirst(w, missionId, stepId, env) ==
    LET i == findMission(w.st.missions, missionId)
    IN  IF i = 0 THEN w
        ELSE LET k == findStep(w.st.missions[i], stepId)
             IN  IF k = 0 THEN w
                 ELSE IF w.st.missions[i].steps[k].completed THEN w
                 ELSE Then([w.st.missions[i] EXCEPT !.steps[k].completed = TRUE],
                           LAMBDA m1 :
                      Then([m1 EXCEPT !.progress =
                               roundProgress(completedSteps(m1), Len(m1.steps))],
                           LAMBDA m2 :
                      Then(DashNotify([w EXCEPT !.st.missions[i] = m2]),
                           LAMBDA w1 :
                      IF m2.status = "active"
                      THEN completeMission(w1, i, env)
                      ELSE w1)))

\* variant: no check of step.completed
completeMissionStepAgain(w, missionId, stepId, env) ==
    LET i == findMission(w.st.missions, missionId)
    IN  IF i = 0 THEN w
        ELSE LET k == findStep(w.st.missions[i], stepId)
             IN  IF k = 0 THEN w
                 ELSE Then([w.st.missions[i] EXCEPT !.steps[k].completed = TRUE],
                           LAMBDA m1 :
                      Then([m1 EXCEPT !.progress =
                               roundProgress(completedSteps(m1), Len(m1.steps))],
                           LAMBDA m2 :
                      Then(DashNotify([w EXCEPT !.st.missions[i] = m2]),
                           LAMBDA w1 :
                      IF allCompleted(m2) /\ m2.status = "active"
                      THEN completeMission(w1, i, env)
                      ELSE w1)))

completeMissionStep(w, missionId, stepId, env) ==
    LET i == findMission(w.st.missions, missionId)
    IN  IF i = 0 THEN w
        ELSE LET k == findStep(w.st.missions[i], stepId)
             IN  IF k = 0 THEN w
                 ELSE IF w.st.missions[i].steps[k].completed THEN w
                 ELSE Then([w.st.missions[i] EXCEPT !.steps[k].completed = TRUE],
                           LAMBDA m1 :
                      Then([m1 EXCEPT !.progress =
                               roundProgress(completedSteps(m1), Len(m1.steps))],
                           LAMBDA m2 :
                      Then(DashNotify([w EXCEPT !.st.missions[i] = m2]),
                           LAMBDA w1 :
                      IF allCompleted(m2) /\ m2.status = "active"
                      THEN completeMission(w1, i, env)
                      ELSE w1)))

(***************************************************************************)
(* CommandHandlers.  Rates are in hundred-thousandths.  Math.random() lies *)
(* in [0, 1): a draw can succeed at every rate (the rate is at least 0.1)  *)
(* and can fail exactly when the rate is below 1.0.                        *)
(***************************************************************************)
Commands == {"scan", "decrypt", "bruteforce"}

MAX_RETRIES == 3

RateOne == 100000

BASE_SUCCESS_RATE(command) ==
    CASE command = "scan"       -> 95000
      [] command = "bruteforce" -> 70000
      [] command = "decrypt"    -> 80000
      [] command = "ping"       -> 99000
      [] OTHER                  -> 80000

RETRY_PENALTY == 10000

allSuccessRate100(badges) == IF Includes(badges, "elite_hacker") THEN 115 ELSE 100

decryptSuccess100(badges) == IF Includes(badges, "decryptor_badge") THEN 120 ELSE 100

\* variant: the penalty is subtracted without the floor of 0.1
calculateSuccessRateNoFloor(command, retriesOf, badges) ==
    LET penalty == retriesOf[command] * RETRY_PENALTY
        r0 == BASE_SUCCESS_RATE(command) - penalty
        r1 == Min2(RateOne, (r0 * allSuccessRate100(badges)) \div 100)
    IN  IF command = "decrypt"
        THEN Min2(RateOne, (r1 * decryptSuccess100(badges)) \div 100)
        ELSE r1

calculateSuccessRate(command, retriesOf, badges) ==
    LET penalty == retriesOf[command] * RETRY_PENALTY
        r0 == Max2(RateOne \div 10, BASE_SUCCESS_RATE(command) - penalty)
        r1 == Min2(RateOne, (r0 * allSuccessRate100(badges)) \div 100)
    IN  IF command = "decrypt"
        THEN Min2(RateOne, (r1 * decryptSuccess100(badges)) \div 100)
        ELSE r1

\* the values Math.random() < successRate can take
checkCommandSuccess(command, retriesOf, badges) ==
    IF calculateSuccessRate(command, retriesOf, badges) < RateOne
    THEN {TRUE, FALSE} ELSE {TRUE}

\* variant: a success clears the whole map (commandRetries.clear())
recordCommandAttemptClear(retriesOf, command, success) ==
    IF success THEN [c \in DOMAIN retriesOf |-> 0]
    ELSE [retriesOf EXCEPT ![command] = @ + 1]

recordCommandAttempt(retriesOf, command, success) ==
    IF success THEN [retriesOf EXCEPT ![command] = 0]
    ELSE [retriesOf EXCEPT ![command] = @ + 1]

trackCommandUsage(w, command) ==
    [w EXCEPT !.st.usedCommands = @ \cup {command}]

\* completeMatchingMissionSteps: forEach over the stored missions array and
\* over each mission's steps; mission:step:complete is handled synchronously
\* by completeMissionStep, so later iterations see its writes
RECURSIVE matchSteps(_, _, _, _, _)
matchSteps(w, command, i, k, env) ==
    IF k > Len(w.st.missions[i].steps) THEN w
    ELSE IF /\ ~w.st.missions[i].steps[k].completed
            /\ stepMatches(command, w.st.missions[i].steps[k].text)
    THEN Then(completeMissionStep(w, w.st.missions[i].id,
                                  w.st.missions[i].steps[k].id, env),
              LAMBDA w1 :
         IF w1.g.over THEN w1
         ELSE matchSteps(w1, command, i, k + 1, env))
    ELSE matchSteps(w, command, i, k + 1, env)

RECURSIVE matchMissions(_, _, _, _)
matchMissions(w, command, i, env) ==
    IF i > Len(w.st.missions) THEN w
    ELSE IF w.st.missions[i].status # "active"
    THEN matchMissions(w, command, i + 1, env)
    ELSE matchMissions(matchSteps(w, command, i, 1, env), command, i + 1, env)

completeMatchingMissionSteps(w, command, env) ==
    IF commandPatterns(command) = {} THEN w
    ELSE matchMissions(w, command, 1, env)

\* the 500 ms timer of a successful bruteforce (mission-01, step-4)
bruteforceFollowUp(w, env) ==
    LET i == findMission(w.st.missions, "mission-01")
    IN  IF i = 0 THEN w
        ELSE IF w.st.missions[i].status # "active" THEN w
        ELSE LET k4 == findStep(w.st.missions[i], "step-4")
                 k3 == findStep(w.st.missions[i], "step-3")
             IN  IF /\ k4 # 0
                    /\ ~w.st.missions[i].steps[k4].completed
                    /\ k3 # 0
                    /\ w.st.missions[i].steps[k3].completed
                 THEN completeMissionStep(w, "mission-01", "step-4", env)
                 ELSE w

(***************************************************************************)
(* Inputs.  A scenario pairs the saved state found in local storage with   *)
(* the mission list that the mission file delivers.                        *)
(***************************************************************************)
Step(id, text) == [id |-> id, text |-> text, completed |-> FALSE]

Mission(id, type, difficulty, timeLimit, solutions, status, reward, steps) ==
    [id |-> id, type |-> type, difficulty |-> difficulty,
     timeLimit |-> timeLimit, solutions |-> solutions, status |-> status,
     progress |-> 0, reward |-> reward, started |-> FALSE, steps |-> steps]

\* the fixture of tests/integration/MissionCompletion.test.js
MenuFixture ==
    << Mission("mission-01", "TUTORIAL", "easy", 0, 3, "active", Rew50Badge,
               << Step("step-1", TxtScanFiles), Step("step-2", TxtDecryptHash),
                  Step("step-3", TxtBruteForce), Step("step-4", TxtRecover) >>) >>

LockedBoss ==
    Mission("mission-04", "BOSS", "very_hard", 0, 1, "locked", Rew150,
            << Step("step-1", TxtCrackKey) >>)

\* an active story mission followed by a locked story and a locked boss mission
MenuChain ==
    << Mission("mission-02", "STORY", "medium", 0, 1, "active", Rew100,
               << Step("step-1", TxtScanNet), Step("step-2", TxtDecryptFile) >>),
       Mission("mission-03", "STORY", "hard", 0, 1, "locked", RewBadgeOnly,
               << Step("step-1", TxtMonitor) >>),
       LockedBoss >>

\* a mission of ProceduralMissionGenerator (three steps, time limit 600)
\* and a locked boss mission
MenuProcedural ==
    << Mission("proc-1", "RANDOM", "medium", 600, 0, "active", Rew100,
               << Step("step-1", TxtScanNet), Step("step-2", TxtExploit),
                  Step("step-3", TxtBypass) >>),
       LockedBoss >>

MenuSingle ==
    << Mission("proc-2", "RANDOM", "medium", 600, 0, "active", Rew100,
               << Step("step-1", TxtMonitor) >>),
       LockedBoss >>

MissionKeys == {"mission-01", "mission-02", "mission-03", "mission-04",
                "proc-1", "proc-2"}

\* App.getInitialState; the optional keys are absent (has = {})
getInitialState ==
    [xp |-> 0, level |-> 1, completedMissions |-> 0, missions |-> <<>>,
     perfectMissions |-> 0, nightMissions |-> 0, fastest |-> -1,
     usedCommands |-> {}, unlockedBadges |-> <<>>,
     unlockedAchievements |-> <<>>, completedGoals |-> <<>>,
     unlockedItems |-> <<>>, has |-> {}, playerTitle |-> "",
     loginStreak |-> 0, lastLogin |-> "none", colTitles |-> <<>>,
     colThemes |-> <<>>, dailyToday |-> 0, dailyChallenge |-> NoChallenge]

\* a saved state: one mission played, a login streak of 29 days
SavedStreak ==
    [getInitialState EXCEPT
        !.xp = 1300, !.level = 9, !.completedMissions = 1,
        !.perfectMissions = 1, !.fastest = 0,
        !.unlockedBadges = <<"hacker_badge", "speed_demon">>,
        !.unlockedAchievements = <<"first_mission", "speed_demon">>,
        !.unlockedItems = <<"advanced_scanner">>,
        !.has = {"unlockedBadges", "unlockedAchievements", "unlockedItems",
                 "playerId"},
        !.loginStreak = 29, !.lastLogin = "yesterday"]

\* a saved state: no mission played, XP from twelve daily logins, logged in
\* today already
SavedLogins ==
    [getInitialState EXCEPT
        !.xp = 1460, !.level = 9,
        !.unlockedItems = <<"advanced_scanner">>,
        !.has = {"unlockedItems"},
        !.loginStreak = 12, !.lastLogin = "today"]

\* a session: the saved state, the mission list, the challenge type that
\* the date selects, whether the clock is before 6, the commands the player
\* enters, and whether command attempts of the session can fail
Scenario(saved, menu, challenge, night, cmds, failures) ==
    [saved |-> saved, menu |-> menu, challenge |-> challenge,
     night |-> night, cmds |-> cmds, failures |-> failures]

Scenarios ==
    { Scenario(getInitialState, MenuFixture, "speed_run", FALSE,
               {"scan", "decrypt", "bruteforce"}, FALSE),
      Scenario(getInitialState, MenuChain, "perfect_run", TRUE,
               {"scan", "decrypt"}, FALSE),
      Scenario(getInitialState, MenuProcedural, "combo_challenge", FALSE,
               {}, FALSE),
      Scenario(SavedStreak, MenuSingle, "command_master", FALSE,
               {}, FALSE),
      Scenario(SavedLogins, MenuSingle, "puzzle_solve", FALSE,
               {}, FALSE),
      Scenario(SavedLogins, MenuChain, "puzzle_solve", FALSE,
               {}, FALSE) }
    \cup { Scenario(getInitialState, MenuSingle, "speed_run", FALSE, {c}, TRUE) :
              c \in Commands }

(***************************************************************************)
(* State.                                                                  *)
(*   st        the StateManager store                                      *)
(*   inThrottle the flag of the throttled dashboard updater                *)
(*   tasks     pending import().then callbacks, in order                   *)
(*   lb        the leaderboard arrays in local storage                     *)
(*   retries   CommandHandlers.commandRetries (0 for an absent entry)      *)
(*   inflight  commands that were invoked and have not resolved yet, and   *)
(*             pending follow-up timers                                    *)
(*   phase     boot -> loading -> run                                      *)
(*   scenario  the inputs of the session                                   *)
(*   g, last   history: counters of emissions, and what the last action did*)
(*   probe     the arguments and results of calls made on a component in   *)
(*             isolation (the specifications at the end of the module);    *)
(*             NoProbe throughout a game session                           *)
(***************************************************************************)
VARIABLES st, inThrottle, tasks, lb, retries, inflight, phase, scenario, g, last,
          probe

gameVars == <<st, inThrottle, tasks, lb, retries, inflight, phase, scenario, g, last>>

vars == <<gameVars, probe>>

NoProbe == [kind |-> "none"]

progVars == <<st, inThrottle, tasks, lb, retries, inflight>>

ElapsedChoices == {60000, 180000}

\* the clock readings a call can take: the time since startTime is read only
\* for a mission that was started
Envs ==
    [elapsed : IF \E i \in 1..Len(st.missions) : st.missions[i].started
               THEN ElapsedChoices ELSE {0},
     night : {scenario.night}]

GhostInit ==
    [ev |-> 0, achXp |-> [a \in AchIds |-> 0], goalXp |-> [x \in GoalIds |-> 0],
     dailyXp |-> 0, luRan |-> FALSE, luMissed |-> FALSE, ctx |-> 0,
     ctxCount |-> 0, obsSeen |-> FALSE, obsOk |-> TRUE, emitOk |-> TRUE,
     complCount |-> <<>>, lbSubs |-> <<>>, rewardXp |-> <<>>, frameOk |-> TRUE,
     lastOp |-> "other", depth |-> 0, over |-> FALSE]

LastNone ==
    [op |-> "other", kind |-> "", cmd |-> "",
     locked |-> FALSE, drew |-> FALSE, refused |-> FALSE, stepped |-> FALSE,
     repeatA |-> FALSE, emptyA |-> TRUE, evA |-> 0]

Init ==
    /\ scenario \in Scenarios
    /\ st = scenario.saved
    /\ inThrottle = FALSE
    /\ tasks = <<>>
    /\ lb = [m \in MissionKeys |-> <<>>]
    /\ retries = [c \in Commands |-> 0]
    /\ inflight = <<>>
    /\ phase = "boot"
    /\ g = GhostInit
    /\ last = LastNone
    /\ probe = NoProbe

\* the world an action starts from, and the assignment of the world it ends in
World == [st |-> st, thr |-> inThrottle, tasks |-> tasks, lb |-> lb,
          g |-> [g EXCEPT !.ev = 0]]

Commit(w, lastOp) ==
    /\ ~w.g.over
    /\ st' = w.st
    /\ inThrottle' = w.thr
    /\ tasks' = w.tasks
    /\ lb' = w.lb
    /\ g' = [w.g EXCEPT !.lastOp = lastOp]

(***************************************************************************)
(* Start-up: App.init after loadSavedState.                                *)
(***************************************************************************)
calculateDailyReward(streak) ==
    50 + Min2(streak * 10, 100) + (IF streak >= 7 THEN 50 ELSE 0)

checkDailyLogin(w) ==
    IF w.st.lastLogin = "today" THEN w
    ELSE LET newStreak == IF w.st.lastLogin = "yesterday"
                          THEN w.st.loginStreak + 1 ELSE 1
             w1 == [w EXCEPT !.st.lastLogin = "today",
                             !.st.loginStreak = newStreak]
         IN  addXP(Emitted(w1), calculateDailyReward(newStreak))

initializeDailyChallenge(w, type) ==
    IF getCurrentDailyChallenge(w.st) # NoChallenge THEN w
    ELSE [w EXCEPT !.st.dailyChallenge =
                      [type |-> type, status |-> "active", expired |-> FALSE]]

\* initializeUI (dashboard update), daily challenge, daily login
AppInit ==
    /\ phase = "boot"
    /\ LET w1 == DashNotify(World)
           w2 == initializeDailyChallenge(w1, scenario.challenge)
           w3 == checkDailyLogin(w2)
       IN  Commit(w3, "other")
    /\ phase' = "loading"
    /\ last' = LastNone
    /\ UNCHANGED <<retries, inflight, scenario, probe>>

\* loadMissionsFromFile: state.set('missions', ...) once the file arrived
LoadMissions ==
    /\ phase = "loading"
    /\ tasks = <<>>
    /\ LET n == Len(scenario.menu)
           zero == [i \in 1..n |-> 0]
           w1 == DashNotify([World EXCEPT !.st.missions = scenario.menu])
       IN  Commit([w1 EXCEPT !.g.complCount = zero, !.g.lbSubs = zero,
                             !.g.rewardXp = zero], "other")
    /\ phase' = "run"
    /\ last' = LastNone
    /\ UNCHANGED <<retries, inflight, scenario, probe>>

(***************************************************************************)
(* Timers and promise callbacks.                                           *)
(***************************************************************************)
\* setInterval(..., 5000): checkAchievements, then checkGoals
TimerSweep ==
    /\ phase # "boot"
    /\ tasks = <<>>
    /\ LET rA == checkAchievementsR(World)
           rG == checkGoalsR(rA.w)
       IN  /\ Commit(rG.w, "G")
           /\ last' = [LastNone EXCEPT !.op = "timerSweep",
                                       !.repeatA = (g.lastOp = "A"),
                                       !.emptyA = (rA.newly = <<>>),
                                       !.evA = rA.w.g.ev]
    /\ UNCHANGED <<retries, inflight, phase, scenario, probe>>

TitleCollectible == "the_ultimate_hacker"

\* the oldest pending import().then callback
RunMicrotask ==
    /\ tasks # <<>>
    /\ LET w == [World EXCEPT !.tasks = Tail(tasks)]
       IN  CASE Head(tasks) = "hackerBadge" ->
                  /\ Commit(unlockBadge("hacker_badge", w), "other")
                  /\ last' = LastNone
             [] Head(tasks) = "collectTitle" ->
                  /\ Commit(unlockCollectible("titles", TitleCollectible, w), "other")
                  /\ last' = LastNone
             [] OTHER ->
                  LET rA == checkAchievementsR(w)
                  IN  /\ Commit(rA.w, "A")
                      /\ last' = [LastNone EXCEPT !.op = "sweepTask",
                                                  !.repeatA = (g.lastOp = "A"),
                                                  !.emptyA = (rA.newly = <<>>),
                                                  !.evA = rA.w.g.ev]
    /\ UNCHANGED <<retries, inflight, phase, scenario, probe>>

\* the 50 ms timer of throttle()
ThrottleTimeout ==
    /\ inThrottle
    /\ tasks = <<>>
    /\ inThrottle' = FALSE
    /\ g' = [g EXCEPT !.lastOp = "other"]
    /\ last' = LastNone
    /\ UNCHANGED <<st, tasks, lb, retries, inflight, phase, scenario, probe>>

(***************************************************************************)
(* Missions.                                                               *)
(***************************************************************************)
\* a click on the card of an active mission: startTime is set; a mission
\* with exactly one solution goes on to selectSolution and activity:add
\* (several solutions open the selection dialog, none makes selectSolution
\* throw)
\* variant: starting a mission clears its steps
startMissionFromScratch(w, i) ==
    DashNotify([w EXCEPT !.st.missions[i].started = TRUE,
                         !.st.missions[i].steps =
                            [k \in 1..Len(@) |-> [@[k] EXCEPT !.completed = FALSE]]])

startMission(w, i) ==
    LET w1 == [w EXCEPT !.st.missions[i].started = TRUE]
    IN  IF w.st.missions[i].solutions = 1 THEN DashNotify(w1) ELSE w1

StartMission(i) ==
    /\ phase = "run"
    /\ tasks = <<>>
    /\ st.missions[i].status = "active"
    /\ ~st.missions[i].started
    /\ Commit(startMission(World, i), "other")
    /\ last' = LastNone
    /\ UNCHANGED <<retries, inflight, phase, scenario, probe>>

UnknownMissionId == "mission-99"

UnknownStepId == "step-9"

MissionIdInputs == {st.missions[i].id : i \in 1..Len(st.missions)} \cup {UnknownMissionId}

StepIdInputs ==
    UNION {{st.missions[i].steps[k].id : k \in 1..Len(st.missions[i].steps)} :
              i \in 1..Len(st.missions)}
    \cup {UnknownStepId}

completeStepKind(missions, mid, sid) ==
    LET i == findMission(missions, mid)
    IN  IF i = 0 THEN "unknownMission"
        ELSE LET k == findStep(missions[i], sid)
             IN  IF k = 0 THEN "unknownStep"
                 ELSE IF missions[i].steps[k].completed THEN "alreadyCompleted"
                 ELSE "completes"

\* the event mission:step:complete {missionId, stepId}; the clock is read
\* only on the path that completes a step
CompleteStep(mid, sid) ==
    /\ phase = "run"
    /\ tasks = <<>>
    /\ \E env \in (IF completeStepKind(st.missions, mid, sid) = "completes"
                    THEN Envs ELSE {CHOOSE e \in Envs : TRUE}) :
          Commit(completeMissionStep(World, mid, sid, env), "other")
    /\ last' = [LastNone EXCEPT !.op = "completeStep",
                                !.kind = completeStepKind(st.missions, mid, sid)]
    /\ UNCHANGED <<retries, inflight, phase, scenario, probe>>

(***************************************************************************)
(* Terminal commands.  A handler runs up to its first await or timer when  *)
(* the command is entered (Invoke) and finishes in a later callback        *)
(* (Resolve).  An in-flight entry keeps the outcome the handler drew at    *)
(* invocation ("open" for scan, whose outcome is the typing challenge's)   *)
(* and, as history, whether the command's counter had reached MAX_RETRIES. *)
(***************************************************************************)
RECURSIVE SumOver(_, _)
SumOver(f, S) ==
    IF S = {} THEN 0
    ELSE LET x == CHOOSE y \in S : TRUE IN f[x] + SumOver(f, S \ {x})

Remove(seq, j) == SubSeq(seq, 1, j - 1) \o SubSeq(seq, j + 1, Len(seq))

Invoke(cmd) ==
    /\ phase = "run"
    /\ tasks = <<>>
    /\ Len(inflight) < MaxInflight
    /\ cmd \in scenario.cmds
    /\ SumOver(retries, Commands) + Len(inflight) < MaxRetryCount
    /\ LET locked == retries[cmd] >= MAX_RETRIES
           w1 == trackCommandUsage(World, cmd)
       IN  /\ Commit(w1, "other")
           /\ IF cmd = "scan"
              THEN /\ inflight' = Append(inflight,
                          [cmd |-> cmd, success |-> "open", locked |-> locked])
                   /\ last' = [LastNone EXCEPT !.op = "invoke",
                                               !.locked = locked]
              ELSE \E success \in checkCommandSuccess(cmd, retries, st.unlockedBadges) :
                     /\ success \/ scenario.failures
                     /\ IF cmd = "bruteforce" /\ retries[cmd] >= MAX_RETRIES
                        THEN /\ inflight' = inflight
                             /\ last' = [LastNone EXCEPT !.op = "invoke",
                                           !.locked = locked, !.drew = TRUE,
                                           !.refused = TRUE]
                        ELSE /\ inflight' = Append(inflight,
                                   [cmd |-> cmd, locked |-> locked,
                                    success |-> IF success THEN "yes" ELSE "no"])
                             /\ last' = [LastNone EXCEPT !.op = "invoke",
                                           !.locked = locked, !.drew = TRUE]
    /\ UNCHANGED <<retries, phase, scenario, probe>>

\* the callback that ends a command: the typing challenge's promise (scan),
\* the last tick of the progress interval (bruteforce), the innermost of the
\* three timers (decrypt; timers of equal delay fire in order)
Resolve(j) ==
    /\ phase = "run"
    /\ tasks = <<>>
    /\ j \in 1..Len(inflight)
    /\ inflight[j].cmd \in Commands
    /\ inflight[j].cmd = "decrypt" =>
          \A h \in 1..(j - 1) : inflight[h].cmd # "decrypt"
    /\ LET e == inflight[j]
       IN  \E env \in Envs, result \in (IF scenario.failures THEN BOOLEAN ELSE {TRUE}) :
             LET success == IF e.success = "open" THEN result ELSE e.success = "yes"
                 w1 == IF success
                       THEN completeMatchingMissionSteps(World, e.cmd, env)
                       ELSE World
             IN  /\ Commit(w1, "other")
                 /\ retries' = recordCommandAttempt(retries, e.cmd, success)
                 /\ inflight' = IF success /\ e.cmd = "bruteforce"
                                THEN [inflight EXCEPT ![j] =
                                        [cmd |-> "followUp", success |-> "yes",
                                         locked |-> e.locked]]
                                ELSE Remove(inflight, j)
                 /\ last' = [LastNone EXCEPT
                               !.op = "resolve",
                               !.cmd = e.cmd,
                               !.locked = e.locked,
                               !.kind = IF success THEN "success" ELSE "failure",
                               !.stepped = (w1.st.missions # st.missions)]
    /\ UNCHANGED <<phase, scenario, probe>>

\* the 500 ms timer set by a successful bruteforce
FollowUp(j) ==
    /\ phase = "run"
    /\ tasks = <<>>
    /\ j \in 1..Len(inflight)
    /\ inflight[j].cmd = "followUp"
    /\ \E env \in Envs :
          LET w1 == bruteforceFollowUp(World, env)
          IN  /\ Commit(w1, "other")
              /\ last' = [LastNone EXCEPT !.op = "followUp",
                             !.locked = inflight[j].locked,
                             !.stepped = (w1.st.missions # st.missions)]
    /\ inflight' = Remove(inflight, j)
    /\ UNCHANGED <<retries, phase, scenario, probe>>

Next ==
    \/ AppInit
    \/ LoadMissions
    \/ TimerSweep
    \/ RunMicrotask
    \/ ThrottleTimeout
    \/ \E i \in 1..Len(st.missions) : StartMission(i)
    \/ \E mid \in MissionIdInputs, sid \in StepIdInputs : CompleteStep(mid, sid)
    \/ \E cmd \in Commands : Invoke(cmd)
    \/ \E j \in 1..MaxInflight : Resolve(j)
    \/ \E j \in 1..MaxInflight : FollowUp(j)

Spec == Init /\ [][Next]_vars

(***************************************************************************)
(* Components in isolation.  The game stands still (no session is booted)  *)
(* and one component is called directly, as its unit tests call it.        *)
(***************************************************************************)
NoScenario == Scenario(getInitialState, <<>>, "none", FALSE, {}, FALSE)

IdleGame ==
    /\ scenario = NoScenario
    /\ st = getInitialState
    /\ inThrottle = FALSE
    /\ tasks = <<>>
    /\ lb = [m \in MissionKeys |-> <<>>]
    /\ retries = [c \in Commands |-> 0]
    /\ inflight = <<>>
    /\ phase = "idle"
    /\ g = GhostInit
    /\ last = LastNone

(***************************************************************************)
(* LeaderboardSystem.submitScore called repeatedly for one mission, from   *)
(* an empty local storage.  probe.submitted is the history of the entries  *)
(* in submission order; every submission comes from another player, so     *)
(* that an entry is known by its playerId.                                 *)
(***************************************************************************)
MaxSubmissions == 12

LbMission == "mission-01"

\* scores of calculateScore: an easy and a medium mission, full bonuses
LbScores == {1800, 2700}

LbPlayers == <<"p01", "p02", "p03", "p04", "p05", "p06", "p07", "p08",
               "p09", "p10", "p11", "p12", "p13", "p14", "p15", "p16">>

LbInit ==
    /\ IdleGame
    /\ probe = [kind |-> "leaderboard", submitted |-> <<>>]

LbSubmit(score) ==
    /\ probe.kind = "leaderboard"
    /\ Len(probe.submitted) < MaxSubmissions
    /\ LET playerId == LbPlayers[Len(probe.submitted) + 1]
       IN  /\ lb' = [lb EXCEPT ![LbMission] = submitScore(@, playerId, score)]
           /\ probe' = [probe EXCEPT !.submitted =
                           Append(@, [playerId |-> playerId, score |-> score])]
    /\ UNCHANGED <<st, inThrottle, tasks, retries, inflight, phase, scenario,
                   g, last>>

LbNext == \E score \in LbScores : LbSubmit(score)

LbSpec == LbInit /\ [][LbNext]_vars

(***************************************************************************)
(* ProgressionSystem called for one level: getXPForLevel(level), and       *)
(* getLevelFromXP at the level's threshold and one XP below it.            *)
(***************************************************************************)
MaxLevel == 40

CurveInit ==
    /\ IdleGame
    /\ \E level \in 1..MaxLevel :
          probe = [kind |-> "curve", level |-> level, called |-> {},
                   xpForLevel |-> 0, atTotal |-> 0, belowTotal |-> 0]

CurveXPForLevel ==
    /\ probe.kind = "curve"
    /\ "getXPForLevel" \notin probe.called
    /\ probe' = [probe EXCEPT !.xpForLevel = getXPForLevel(probe.level),
                              !.called = @ \cup {"getXPForLevel"}]
    /\ UNCHANGED gameVars

CurveLevelFromXP ==
    /\ probe.kind = "curve"
    /\ "getLevelFromXP" \notin probe.called
    /\ probe' = [probe EXCEPT
                    !.atTotal = getLevelFromXP(getTotalXPForLevel(probe.level)),
                    !.belowTotal = getLevelFromXP(getTotalXPForLevel(probe.level) - 1),
                    !.called = @ \cup {"getLevelFromXP"}]
    /\ UNCHANGED gameVars

CurveNext == CurveXPForLevel \/ CurveLevelFromXP

CurveSpec == CurveInit /\ [][CurveNext]_vars

(***************************************************************************)
(* CommandHandlers.calculateSuccessRate called for one command, one retry  *)
(* count and one set of unlocked badges; the rate is recorded for the      *)
(* count itself, after one more failure and after three more failures.     *)
(***************************************************************************)
MaxRetriesProbed == 12

\* the commands of BASE_SUCCESS_RATE and one command without an entry
RateCommands == Commands \cup {"ping", "whoami"}

\* unlockedBadges: no badge, and the badges that applyBadgeEffects reads
\* for success rates
BadgeChoices == {<<>>, <<"hacker_badge">>, <<"elite_hacker">>,
                 <<"decryptor_badge">>, <<"elite_hacker", "decryptor_badge">>}

RateInit ==
    /\ IdleGame
    /\ \E command \in RateCommands, r \in 0..MaxRetriesProbed,
          badges \in BadgeChoices :
          probe = [kind |-> "rate", command |-> command, retries |-> r,
                   badges |-> badges, called |-> FALSE,
                   rate |-> 0, rateNext |-> 0, rateThree |-> 0]

rateAt(command, r, badges) ==
    calculateSuccessRate(command, [c \in {command} |-> r], badges)

RateCalculate ==
    /\ probe.kind = "rate"
    /\ ~probe.called
    /\ probe' = [probe EXCEPT
                    !.called = TRUE,
                    !.rate = rateAt(probe.command, probe.retries, probe.badges),
                    !.rateNext = rateAt(probe.command, probe.retries + 1, probe.badges),
                    !.rateThree = rateAt(probe.command, probe.retries + 3, probe.badges)]
    /\ UNCHANGED gameVars

RateNext == RateCalculate

RateSpec == RateInit /\ [][RateNext]_vars

(***************************************************************************)
(* CommandHandlers called in isolation: recordCommandAttempt,              *)
(* calculateSuccessRate and checkCommandSuccess in any order, for any of   *)
(* the commands.  retries is commandRetries; probe.failures is the history *)
(* of each command: the failures recorded since its last recorded success. *)
(***************************************************************************)
MaxAttempts == 3

HandlersInit ==
    /\ IdleGame
    /\ \E badges \in BadgeChoices :
          probe = [kind |-> "handlers", badges |-> badges,
                   failures |-> [c \in Commands |-> 0],
                   call |-> "none", command |-> "", result |-> 0]

HandlersRecord(command, success) ==
    /\ probe.kind = "handlers"
    /\ success \/ probe.failures[command] < MaxAttempts
    /\ retries' = recordCommandAttempt(retries, command, success)
    /\ probe' = [probe EXCEPT
                    !.failures[command] = IF success THEN 0 ELSE @ + 1,
                    !.call = "recordCommandAttempt",
                    !.command = command,
                    !.result = 0]
    /\ UNCHANGED <<st, inThrottle, tasks, lb, inflight, phase, scenario, g, last>>

HandlersCalculate(command) ==
    /\ probe.kind = "handlers"
    /\ probe' = [probe EXCEPT
                    !.call = "calculateSuccessRate",
                    !.command = command,
                    !.result = calculateSuccessRate(command, retries, probe.badges)]
    /\ UNCHANGED gameVars

HandlersCheck(command) ==
    /\ probe.kind = "handlers"
    /\ \E success \in checkCommandSuccess(command, retries, probe.badges) :
          probe' = [probe EXCEPT
                      !.call = "checkCommandSuccess",
                      !.command = command,
                      !.result = IF success THEN 1 ELSE 0]
    /\ UNCHANGED gameVars

HandlersNext ==
    \/ \E command \in Commands, success \in BOOLEAN : HandlersRecord(command, success)
    \/ \E command \in Commands : HandlersCalculate(command)
    \/ \E command \in Commands : HandlersCheck(command)

HandlersSpec == HandlersInit /\ [][HandlersNext]_vars

(***************************************************************************)
(* BadgeSystem.unlockBadge and CollectionSystem.unlockCollectible called   *)
(* in isolation with ids inside and outside the registries.  probe.badges  *)
(* is the state key unlockedBadges, probe.collections the keys             *)
(* collection_<type>; probe.events counts the events of the last call and  *)
(* probe.before keeps the stored lists the last call started from.         *)
(***************************************************************************)
MaxUnlocks == 4

UnknownId == "no_such_id"

UnknownType == "stickers"

TitleIds == {"rookie", "the_ultimate_hacker", "speed_demon", "elite_hacker"}

ThemeIds == {"default", "neon_terminal", "dark_mode", "pastel_dream"}

\* getCollectibleData(type, id) # null
hasCollectibleData(type, id) ==
    CASE type = "badges" -> id \in BadgeIds
      [] type = "themes" -> id \in ThemeIds
      [] type = "titles" -> id \in TitleIds
      [] OTHER           -> FALSE

\* unlockCollectible over the keys collection_<type> of any type: the
\* collections after the call and the number of collectible:unlocked events
unlockCollectibleOfType(collections, type, id) ==
    IF Includes(collections[type], id)
    THEN [collections |-> collections, events |-> 0]
    ELSE [collections |-> [collections EXCEPT ![type] = Append(@, id)],
          events |-> 1]

RegistryBadgeInputs == {"hacker_badge", "elite_hacker", UnknownId}

RegistryTypeInputs == {"titles", "themes", UnknownType}

RegistryIdInputs == {"elite_hacker", UnknownId}

RegistryInit ==
    /\ IdleGame
    /\ probe = [kind |-> "registry", badges |-> <<>>,
                collections |-> [t \in RegistryTypeInputs |-> <<>>],
                calls |-> 0, op |-> "none", known |-> TRUE, events |-> 0,
                before |-> [badges |-> <<>>,
                            collections |-> [t \in RegistryTypeInputs |-> <<>>]]]

RegistryUnlockBadge(badgeId) ==
    /\ probe.kind = "registry"
    /\ probe.calls < MaxUnlocks
    /\ LET w == unlockBadge(badgeId, [World EXCEPT !.st.unlockedBadges = probe.badges])
       IN  probe' = [probe EXCEPT
                       !.badges = w.st.unlockedBadges,
                       !.calls = @ + 1,
                       !.op = "unlockBadge",
                       !.known = badgeId \in BadgeIds,
                       !.events = w.g.ev,
                       !.before = [badges |-> probe.badges,
                                   collections |-> probe.collections]]
    /\ UNCHANGED gameVars

RegistryUnlockCollectible(type, id) ==
    /\ probe.kind = "registry"
    /\ probe.calls < MaxUnlocks
    /\ LET r == unlockCollectibleOfType(probe.collections, type, id)
       IN  probe' = [probe EXCEPT
                       !.collections = r.collections,
                       !.calls = @ + 1,
                       !.op = "unlockCollectible",
                       !.known = hasCollectibleData(type, id),
                       !.events = r.events,
                       !.before = [badges |-> probe.badges,
                                   collections |-> probe.collections]]
    /\ UNCHANGED gameVars

RegistryNext ==
    \/ \E badgeId \in RegistryBadgeInputs : RegistryUnlockBadge(badgeId)
    \/ \E type \in RegistryTypeInputs, id \in RegistryIdInputs :
          RegistryUnlockCollectible(type, id)

RegistrySpec == RegistryInit /\ [][RegistryNext]_vars

(***************************************************************************)
(* LeaderboardSystem.calculateScore called for one mission (its estimate   *)
(* is mission.timeLimit) and one completion (timeTaken, retries).  The     *)
(* times probed are the twentieths of the estimate and their successors.   *)
(***************************************************************************)
MaxScoredRetries == 4

TwentiethsProbed == 24

ScoreEstimates == {3, 300, 600000}

ScoreDifficulties == {"easy", "medium", "hard", "very_hard", "variable"}

ScoreInit ==
    /\ IdleGame
    /\ \E estimate \in ScoreEstimates, k \in 0..TwentiethsProbed, d \in 0..1,
          retries_ \in 0..MaxScoredRetries, difficulty \in ScoreDifficulties :
          probe = [kind |-> "score",
                   mission |-> [MenuFixture[1] EXCEPT !.timeLimit = estimate,
                                                      !.difficulty = difficulty],
                   timeTaken |-> (estimate * k) \div 20 + d,
                   retries |-> retries_, called |-> FALSE, score |-> 0]

ScoreCalculate ==
    /\ probe.kind = "score"
    /\ ~probe.called
    /\ probe' = [probe EXCEPT
                    !.called = TRUE,
                    !.score = calculateScore(probe.mission, probe.timeTaken,
                                             probe.retries)]
    /\ UNCHANGED gameVars

ScoreNext == ScoreCalculate

ScoreSpec == ScoreInit /\ [][ScoreNext]_vars

(***************************************************************************)
(* BadgeSystem.applyBadgeEffects: the six multipliers, in units of 1/10000 *)
(* (the products of the registry's factors are exact in these units), for  *)
(* a list of unlocked badge ids read in its stored order.  The harness     *)
(* applies it to one list of distinct ids and to a reordering of the list. *)
(***************************************************************************)
MaxBadges == 3

EffectOne == 10000

EffectKeys == {"xpBonus", "scanSpeed", "decryptSuccess", "bypassChance",
               "commandSpeed", "allSuccessRate"}

\* badge.effect in hundredths; no entry for an id without a badge
BadgeEffect100(badgeId) ==
    CASE badgeId = "hacker_badge"      -> [xpBonus |-> 110]
      [] badgeId = "interceptor_badge" -> [scanSpeed |-> 150]
      [] badgeId = "decryptor_badge"   -> [decryptSuccess |-> 120]
      [] badgeId = "firewall_master"   -> [bypassChance |-> 130]
      [] badgeId = "speed_demon"       -> [commandSpeed |-> 125]
      [] badgeId = "elite_hacker"      -> [xpBonus |-> 120, allSuccessRate |-> 115]
      [] OTHER                         -> [key \in {} |-> 100]

\* variant: effects[key] = badge.effect[key], the last badge wins
RECURSIVE combineEffectsLastWins(_, _)
combineEffectsLastWins(effects, badges) ==
    IF badges = <<>> THEN effects
    ELSE combineEffectsLastWins(
            [key \in EffectKeys |->
                IF key \in DOMAIN BadgeEffect100(Head(badges))
                THEN BadgeEffect100(Head(badges))[key] * 100
                ELSE effects[key]],
            Tail(badges))

\* badges.forEach: effects[key] *= badge.effect[key]
RECURSIVE combineEffects(_, _)
combineEffects(effects, badges) ==
    IF badges = <<>> THEN effects
    ELSE combineEffects(
            [key \in EffectKeys |->
                IF key \in DOMAIN BadgeEffect100(Head(badges))
                THEN (effects[key] * BadgeEffect100(Head(badges))[key]) \div 100
                ELSE effects[key]],
            Tail(badges))

applyBadgeEffects(badges) ==
    combineEffects([key \in EffectKeys |-> EffectOne], badges)

EffectsInit ==
    /\ IdleGame
    /\ \E n \in 0..MaxBadges :
          \E badges \in [1..n -> BadgeIds \cup {UnknownId}] :
             /\ \A a, b \in 1..n : a # b => badges[a] # badges[b]
             /\ probe = [kind |-> "effects", badges |-> badges, called |-> FALSE,
                         reordered |-> badges,
                         effects |-> [key \in EffectKeys |-> 0],
                         effectsReordered |-> [key \in EffectKeys |-> 0]]

EffectsApply(p) ==
    /\ probe.kind = "effects"
    /\ ~probe.called
    /\ LET reordered == [k \in DOMAIN probe.badges |-> probe.badges[p[k]]]
       IN  probe' = [probe EXCEPT
                       !.called = TRUE,
                       !.reordered = reordered,
                       !.effects = applyBadgeEffects(probe.badges),
                       !.effectsReordered = applyBadgeEffects(reordered)]
    /\ UNCHANGED gameVars

EffectsNext == \E p \in Permutations(DOMAIN probe.badges) : EffectsApply(p)

EffectsSpec == EffectsInit /\ [][EffectsNext]_vars

(***************************************************************************)
(* EventBus (on, once, off, emit) for one event name and StateManager      *)
(* (subscribe, set -> notify) for one key, each in isolation.  A callback  *)
(* is "plain", "throws" (throws at every call) or "emits" (emits the same  *)
(* event again at its first call).  The bus record b holds                 *)
(*   listeners  this.events[event] / subscribers.get(key): ids in array    *)
(*              order (for once, the id of the wrapper)                    *)
(*   calls      how often each callback was called                         *)
(*   flagged    the "emits" callbacks that have emitted                    *)
(*   log        the callbacks the outermost forEach of the last emission   *)
(*              called, in order                                           *)
(* A call returns the bus and whether it ended by throwing.                *)
(***************************************************************************)
MaxListeners == 3

MaxEmissions == 3

\* this.events[event].filter((cb) => cb !== callback)
off(b, id) ==
    [b EXCEPT !.listeners = SelectSeq(@, LAMBDA x : x # id)]

\* variant: forEach without try / catch, the first exception ends the loop
\* and leaves emit
RECURSIVE emitLoopNoCatch(_, _, _, _, _)
emitLoopNoCatch(b, registered, arr, k, depth) ==
    IF k > Len(arr) THEN [b |-> b, threw |-> FALSE]
    ELSE Then([b EXCEPT !.calls[arr[k]] = @ + 1,
                        !.log = IF depth = 0 THEN Append(@, arr[k]) ELSE @],
              LAMBDA b1 :
                 IF registered[arr[k]].kind = "throws"
                 THEN [b |-> b1, threw |-> TRUE]
                 ELSE emitLoopNoCatch(
                         IF registered[arr[k]].once THEN off(b1, arr[k]) ELSE b1,
                         registered, arr, k + 1, depth))

RECURSIVE emitLoop(_, _, _, _, _)
\* callback(data) for the listener id: the callback itself, and for a
\* listener registered by once the wrapper around it, which reaches
\* this.off(event, wrapper) only when the callback returned
callListener(b, registered, id, depth) ==
    Then([b EXCEPT !.calls[id] = @ + 1,
                   !.log = IF depth = 0 THEN Append(@, id) ELSE @],
         LAMBDA b1 :
            Then(CASE registered[id].kind = "throws" -> [b |-> b1, threw |-> TRUE]
                   [] registered[id].kind = "emits" /\ id \notin b1.flagged ->
                         emitLoop([b1 EXCEPT !.flagged = @ \cup {id}], registered,
                                  b1.listeners, 1, depth + 1)
                   [] OTHER -> [b |-> b1, threw |-> FALSE],
                 LAMBDA r :
                    IF registered[id].once /\ ~r.threw
                    THEN [b |-> off(r.b, id), threw |-> FALSE]
                    ELSE r))

\* emit and notify: forEach over the array the call started with, each
\* callback inside try / catch
emitLoop(b, registered, arr, k, depth) ==
    IF k > Len(arr) THEN [b |-> b, threw |-> FALSE]
    ELSE emitLoop(callListener(b, registered, arr[k], depth).b,
                  registered, arr, k + 1, depth)

emit(b, registered) ==
    emitLoop([b EXCEPT !.log = <<>>], registered, b.listeners, 1, 0)

BusKinds(component) ==
    IF component = "EventBus" THEN {"plain", "throws", "emits"}
    ELSE {"plain", "throws"}

BusInit ==
    /\ IdleGame
    /\ \E component \in {"EventBus", "StateManager"} :
          probe = [kind |-> "bus", component |-> component, registered |-> <<>>,
                   b |-> [listeners |-> <<>>,
                          calls |-> [id \in 1..MaxListeners |-> 0],
                          flagged |-> {}, log |-> <<>>],
                   before |-> <<>>, op |-> "none", escaped |-> FALSE,
                   emissions |-> 0]

\* on(event, callback), once(event, callback) and subscribe(key, callback)
BusRegister(kind_, once_) ==
    /\ probe.kind = "bus"
    /\ Len(probe.registered) < MaxListeners
    /\ kind_ \in BusKinds(probe.component)
    /\ once_ => probe.component = "EventBus"
    /\ probe' = [probe EXCEPT
                    !.registered = Append(@, [kind |-> kind_, once |-> once_]),
                    !.b.listeners = Append(@, Len(probe.registered) + 1),
                    !.op = "register"]
    /\ UNCHANGED gameVars

\* emit(event, data) and set(key, value)
BusEmit ==
    /\ probe.kind = "bus"
    /\ probe.emissions < MaxEmissions
    /\ probe.registered # <<>>
    /\ LET r == emit(probe.b, probe.registered)
       IN  probe' = [probe EXCEPT
                       !.b = r.b,
                       !.before = probe.b.listeners,
                       !.op = "emit",
                       !.escaped = r.threw,
                       !.emissions = @ + 1]
    /\ UNCHANGED gameVars

BusNext ==
    \/ \E kind_ \in {"plain", "throws", "emits"}, once_ \in BOOLEAN :
          BusRegister(kind_, once_)
    \/ BusEmit

BusSpec == BusInit /\ [][BusNext]_vars

(***************************************************************************)
(* App.addXP called on a fresh state with awards of several sizes, with    *)
(* the 50 ms window of the dashboard throttle ending in between.  No       *)
(* mission is loaded and no command is entered.                            *)
(***************************************************************************)
MaxAwards == 4

AwardSizes == {100, 150, 400, 700}

AwardInit ==
    /\ IdleGame
    /\ probe = [kind |-> "award", awards |-> 0]

\* eventBus.emit('xp:add', amount) -> App.addXP(amount)
AwardXP(amount) ==
    /\ probe.kind = "award"
    /\ probe.awards < MaxAwards
    /\ tasks = <<>>
    /\ Commit(addXP(World, amount), "other")
    /\ probe' = [probe EXCEPT !.awards = @ + 1]
    /\ last' = LastNone
    /\ UNCHANGED <<retries, inflight, phase, scenario>>

AwardNext ==
    \/ \E amount \in AwardSizes : AwardXP(amount)
    \/ ThrottleTimeout

AwardSpec == AwardInit /\ [][AwardNext]_vars

(***************************************************************************)
(* A session that goes on for ever: the player completes steps by hand     *)
(* (a click on a step that is completed already, or on an unknown one, is  *)
(* answered and changes nothing), and XP also arrives from the sources     *)
(* other than missions (daily login, daily challenge, goals).  The timers  *)
(* and the promise callbacks run whenever they are due; the player never   *)
(* stops clicking.                                                          *)
(***************************************************************************)
LateScenarios ==
    { Scenario(SavedLogins, MenuChain, "puzzle_solve", FALSE, {}, FALSE),
      Scenario(getInitialState, MenuChain, "perfect_run", TRUE, {}, FALSE) }

MaxEarned == 2

\* the reward of the achievement first_mission and of the goal Mission Master
EarnSizes == {25, 1500}

LateInit ==
    /\ scenario \in LateScenarios
    /\ st = scenario.saved
    /\ inThrottle = FALSE
    /\ tasks = <<>>
    /\ lb = [m \in MissionKeys |-> <<>>]
    /\ retries = [c \in Commands |-> 0]
    /\ inflight = <<>>
    /\ phase = "boot"
    /\ g = GhostInit
    /\ last = LastNone
    /\ probe = [kind |-> "earn", earned |-> 0]

\* eventBus.emit('xp:add', amount) of a source other than a mission
EarnXP(amount) ==
    /\ phase = "run"
    /\ probe.earned < MaxEarned
    /\ tasks = <<>>
    /\ Commit(addXP(World, amount), "other")
    /\ probe' = [probe EXCEPT !.earned = @ + 1]
    /\ last' = LastNone
    /\ UNCHANGED <<retries, inflight, phase, scenario>>

LateNext ==
    \/ AppInit
    \/ LoadMissions
    \/ TimerSweep
    \/ RunMicrotask
    \/ ThrottleTimeout
    \/ \E mid \in MissionIdInputs, sid \in StepIdInputs : CompleteStep(mid, sid)
    \/ \E amount \in EarnSizes : EarnXP(amount)

\* The event loop runs every due callback and the player never stops: each
\* action that stays possible is taken again and again.  For the actions
\* whose result is computed from the whole store, weak fairness is written
\* with the action's guard in the place of ENABLED (the guard implies that
\* the action can be taken, so this asks no less than WF_vars does).
LateFairness ==
    /\ WF_vars(AppInit)
    /\ WF_vars(LoadMissions)
    /\ WF_vars(ThrottleTimeout)
    /\ (<>[](tasks # <<>>)) => []<><<RunMicrotask>>_vars
    /\ (<>[](phase # "boot" /\ tasks = <<>>)) => []<><<TimerSweep>>_vars
    /\ (<>[](phase = "run" /\ tasks = <<>>))
          => []<><<\E mid \in MissionIdInputs, sid \in StepIdInputs :
                      CompleteStep(mid, sid)>>_vars
    /\ (<>[](phase = "run" /\ tasks = <<>> /\ probe.earned < MaxEarned))
          => []<><<\E amount \in EarnSizes : EarnXP(amount)>>_vars

LateSpec == LateInit /\ [][LateNext]_vars /\ LateFairness

(***************************************************************************)
(* Properties.                                                             *)
(***************************************************************************)
\* the step makes all the steps of mission i completed, and the mission is
\* active when its last step flips: it was active before the step, or the
\* step unlocked it (completeMatchingMissionSteps walks on into the mission
\* that a completion has just unlocked) -- nothing locks a mission again
lastStepFlips(i) ==
    /\ ~allCompleted(st.missions[i])
    /\ allCompleted(st'.missions[i])
    /\ st.missions[i].status = "active" \/ st'.missions[i].status # "locked"

\* C1: for an active mission, whatever the order in which its steps are
\* completed, the step that flips the last incomplete step leaves the
\* mission completed with progress 100 and triggers the completion once
\* (one counter increment, one leaderboard submission, one xp:add for the
\* reward); no other step triggers any of the three, and completedMissions
\* grows by exactly the number of missions completed in the step.
C1_CompletionExactlyOnce ==
    [][Len(st.missions) > 0 =>
        /\ \A i \in 1..Len(st.missions) :
              IF lastStepFlips(i)
              THEN /\ st'.missions[i].status = "completed"
                   /\ st'.missions[i].progress = 100
                   /\ g'.complCount[i] = g.complCount[i] + 1
                   /\ g'.lbSubs[i] = g.lbSubs[i] + 1
                   /\ g'.rewardXp[i] = g.rewardXp[i] + 1
                   /\ g'.complCount[i] = 1
              ELSE /\ g'.complCount[i] = g.complCount[i]
                   /\ g'.lbSubs[i] = g.lbSubs[i]
                   /\ g'.rewardXp[i] = g.rewardXp[i]
        /\ st'.completedMissions = st.completedMissions
              + Cardinality({i \in 1..Len(st.missions) : lastStepFlips(i)})]_vars

\* a mission of four steps has been completed, step by step
C1_Witness ==
    \E i \in 1..Len(st.missions) :
        /\ Len(st.missions[i].steps) = 4
        /\ st.missions[i].status = "completed"
        /\ st.missions[i].progress = 100
        /\ g.complCount[i] = 1 /\ g.lbSubs[i] = 1 /\ g.rewardXp[i] = 1

\* C2: a mission all of whose steps are completed has the status
\* completed, whatever its status was when the steps were completed.
C2_AllStepsDoneIsCompleted ==
    \A i \in 1..Len(st.missions) :
        allCompleted(st.missions[i]) => st.missions[i].status = "completed"

\* C3: the reward XP of each achievement and of each long-term goal is
\* emitted at most once in a game, over timer sweeps, sweeps after a
\* completion and sweeps re-entered from a level-up.
C3_RewardAtMostOnce ==
    /\ \A id \in AchIds : g.achXp[id] <= 1
    /\ \A id \in GoalIds : g.goalXp[id] <= 1

\* C4: an achievement sweep that directly follows another achievement sweep,
\* with no operation between the two, returns no newly unlocked entry and
\* emits no xp:add, badge or unlock event.
C4_SecondSweepEmpty ==
    last.repeatA => last.emptyA /\ last.evA = 0

\* C5: when the xp:add of a mission completion is emitted, the store
\* already holds the mission as completed and the incremented counter, and
\* every sweep that takes its snapshot while that award is processed sees
\* both.
C5_MarkedBeforeAward ==
    g.emitOk /\ g.obsOk

\* a sweep has run inside the XP award of a mission completion
C5_Witness ==
    /\ g.obsSeen /\ g.obsOk /\ g.emitOk
    /\ \E i \in 1..Len(st.missions) : g.rewardXp[i] = 1

\* C6: every XP award that lifts getLevelFromXP(xp) above the level stored
\* before the award runs the level-up branch (milestone check, achievement
\* sweep, goal sweep) within that award, throttled dashboard or not.
C6_LevelUpBranchRuns ==
    ~g.luMissed

\* C7: between operations the stored level equals getLevelFromXP of the
\* stored xp, the fresh initial state included.
C7_LevelMatchesXp ==
    st.level = getLevelFromXP(st.xp)

\* C8: an invocation of scan, decrypt or bruteforce made when the command's
\* counter has reached MAX_RETRIES is refused.
C8_LockedCommandRefused ==
    (last.op = "invoke" /\ last.locked) => last.refused

\* C9: completeStep with an unknown mission id, an unknown step id or an
\* already completed step leaves the store, the throttle, the pending
\* callbacks and the leaderboard unchanged, emits no event and triggers no
\* completion, award or submission.
C9_CompleteStepNoOp ==
    [][(last'.op = "completeStep"
        /\ last'.kind \in {"unknownMission", "unknownStep", "alreadyCompleted"})
       => /\ UNCHANGED progVars
          /\ g'.ev = 0
          /\ g'.complCount = g.complCount
          /\ g'.lbSubs = g.lbSubs
          /\ g'.rewardXp = g.rewardXp
          /\ g'.achXp = g.achXp /\ g'.goalXp = g.goalXp
          /\ g'.dailyXp = g.dailyXp]_vars

\* completeStep has been called for a step that was already completed,
\* while the dashboard throttle was open
C9_Witness ==
    /\ last.op = "completeStep"
    /\ last.kind = "alreadyCompleted"
    /\ ~inThrottle

\* C10: the progress of every mission is 100 * completed / total rounded to
\* the nearest integer, halves upwards.
C10_ProgressIsRounded ==
    \A i \in 1..Len(st.missions) :
        LET m == st.missions[i]
            c == completedSteps(m)
            t == Len(m.steps)
        IN  /\ 2 * (100 * c - m.progress * t) <= t
            /\ 2 * (m.progress * t - 100 * c) < t

\* two of three steps are completed: 66.67 rounds to 67
C10_Witness ==
    \E i \in 1..Len(st.missions) :
        /\ Len(st.missions[i].steps) = 3
        /\ completedSteps(st.missions[i]) = 2
        /\ st.missions[i].progress = 67

\* the position of a status on the path locked -> active -> completed
StatusRank(status) ==
    CASE status = "locked"    -> 0
      [] status = "active"    -> 1
      [] status = "completed" -> 2
      [] OTHER                -> -1

\* C11: once the mission list is loaded, no step of the session (command,
\* completeStep, completeMission, startMission, sweep, XP award, timer)
\* moves a mission's status backward along locked -> active -> completed,
\* and none resets the completed flag of a step.
C11_StatusAndStepsMonotonic ==
    [][\A i \in 1..Len(st.missions) :
          /\ Len(st'.missions) = Len(st.missions)
          /\ StatusRank(st'.missions[i].status) >= StatusRank(st.missions[i].status)
          /\ StatusRank(st.missions[i].status) >= 0
          /\ Len(st'.missions[i].steps) = Len(st.missions[i].steps)
          /\ \A k \in 1..Len(st.missions[i].steps) :
                st.missions[i].steps[k].completed
                   => st'.missions[i].steps[k].completed]_vars

\* a mission was completed and unlocked its successor, which was started
\* with a completed step, while a sweep granted an achievement
C11_Witness ==
    \E i \in 1..Len(st.missions) :
        /\ st.missions[i].status = "completed"
        /\ \E h \in 1..Len(st.missions) :
              /\ st.missions[h].status = "active"
              /\ st.missions[h].started
              /\ completedSteps(st.missions[h]) > 0
        /\ Len(st.unlockedAchievements) > 0

\* C12: a call of completeMission for the mission at position i changes the
\* status of no mission other than i and i + 1, and mission i + 1 becomes
\* active exactly when it exists, was locked and the requirements of its
\* type hold in the state read at that moment; otherwise it keeps its status.
C12_UnlockOnlyNext ==
    g.frameOk

\* two missions were completed in a row, the first unlocked the second, and
\* the boss mission behind them stayed locked
C12_Witness ==
    /\ g.frameOk
    /\ \E i \in 1..(Len(st.missions) - 2) :
          /\ g.complCount[i] = 1 /\ g.complCount[i + 1] = 1
          /\ st.missions[i + 2].type = "BOSS"
          /\ st.missions[i + 2].status = "locked"

\* the steps that the step turns from incomplete to completed: every
\* mission:step:complete of the matcher is handled at once by
\* completeMissionStep, which completes the incomplete step it names
flippedSteps ==
    {p \in (1..Len(st.missions)) \X (1..4) :
        /\ p[2] <= Len(st.missions[p[1]].steps)
        /\ ~st.missions[p[1]].steps[p[2]].completed
        /\ st'.missions[p[1]].steps[p[2]].completed}

\* the incomplete steps of active missions whose text holds a keyword of
\* the command, in the mission list the call is made on
matchesAtCall(command) ==
    {p \in (1..Len(st.missions)) \X (1..4) :
        /\ p[2] <= Len(st.missions[p[1]].steps)
        /\ st.missions[p[1]].status = "active"
        /\ ~st.missions[p[1]].steps[p[2]].completed
        /\ stepMatches(command, st.missions[p[1]].steps[p[2]].text)}

\* C13: the call of completeMatchingMissionSteps made by a successful
\* command emits mission:step:complete for exactly the steps that are
\* incomplete, belong to an active mission and hold a keyword of the
\* command -- in all missions -- and for no completed step and no step of
\* a locked or completed mission.
C13_EmitsExactlyMatches ==
    [][(last'.op = "resolve" /\ last'.kind = "success")
          => flippedSteps = matchesAtCall(last'.cmd)]_vars

\* the positions of the completed steps of the first mission
doneSteps(missions) ==
    {k \in 1..Len(missions[1].steps) : missions[1].steps[k].completed}

\* a command of the session has just been resolved successful
resolvedOk(command) ==
    /\ last'.op = "resolve" /\ last'.kind = "success" /\ last'.cmd = command

\* C14: in the session of the fresh state with the active four-step
\* mission-01 (reward "50 XP + Hacker Badge"), a successful scan completes
\* step 1, then a successful decrypt step 2, then a successful bruteforce
\* step 3 and leaves the mission active with step 4 incomplete; completing
\* step 4 is then what completes the mission, with one xp:add of the 50 XP
\* of the reward text and a leaderboard submission of rank 1.
C14_FixtureScenario ==
    [][(scenario.saved = getInitialState /\ scenario.menu = MenuFixture
        /\ Len(st.missions) = 1 /\ st.missions[1].status = "active")
       => /\ (doneSteps(st.missions) = {} /\ resolvedOk("scan"))
              => doneSteps(st'.missions) = {1}
          /\ (doneSteps(st.missions) = {1} /\ resolvedOk("decrypt"))
              => doneSteps(st'.missions) = {1, 2}
          /\ (doneSteps(st.missions) = {1, 2} /\ resolvedOk("bruteforce"))
              => /\ doneSteps(st'.missions) = {1, 2, 3}
                 /\ st'.missions[1].status = "active"
                 /\ g'.rewardXp[1] = 0
          /\ (doneSteps(st.missions) = {1, 2, 3} /\ last'.op = "completeStep"
                 /\ doneSteps(st'.missions) = {1, 2, 3, 4})
              => /\ st'.missions[1].status = "completed"
                 /\ g'.rewardXp[1] = 1
                 /\ parseRewardXp(st.missions[1].reward) = 50
                 /\ g'.lbSubs[1] = 1
                 /\ getPlayerRank(lb'["mission-01"], PlayerId) = 1]_vars

\* C15: after any sequence of submitScore calls for one mission the stored
\* leaderboard is the list of all entries ever submitted for it, sorted by
\* score descending and cut to the first 100; after k <= 100 submissions it
\* holds k entries.
C15_BoardHoldsAllSubmitted ==
    LET all == SortDesc(probe.submitted)
    IN  /\ Len(lb[LbMission]) = Min2(Len(probe.submitted), LeaderboardKeep)
        /\ lb[LbMission] = SubSeq(all, 1, Min2(Len(all), LeaderboardKeep))

\* the position of the entry of a player on the stored board, 0 if absent
onBoard(playerId) == getPlayerRank(lb[LbMission], playerId)

\* C16: of two entries with equal score that both are on the board of the
\* mission, the one submitted earlier has the smaller rank, whatever was
\* submitted after them.
C16_TiesKeepSubmissionOrder ==
    \A a, b \in 1..Len(probe.submitted) :
        (/\ a < b
         /\ probe.submitted[a].score = probe.submitted[b].score
         /\ onBoard(probe.submitted[a].playerId) > 0
         /\ onBoard(probe.submitted[b].playerId) > 0)
        => onBoard(probe.submitted[a].playerId) < onBoard(probe.submitted[b].playerId)

\* two entries of equal score are on the board after later submissions of
\* a higher, an equal and a lower score
C16_Witness ==
    /\ Len(probe.submitted) >= 5
    /\ probe.submitted[1].score = 1800 /\ probe.submitted[2].score = 1800
    /\ probe.submitted[3].score = 2700 /\ probe.submitted[4].score = 1800
    /\ onBoard("p01") = 2 /\ onBoard("p02") = 3 /\ onBoard("p04") = 4

\* C17: for every level >= 1, level 1 included, getLevelFromXP of the
\* total XP of the level is the level, and getLevelFromXP of one XP less is
\* the level below.
C17_BoundaryExact ==
    "getLevelFromXP" \in probe.called
       => /\ probe.atTotal = probe.level
          /\ probe.belowTotal = probe.level - 1

\* C18: getXPForLevel returns 0 for level 1, 100 for level 2 and 115 for
\* level 3.
C18_FirstLevels ==
    "getXPForLevel" \in probe.called
       => /\ probe.level = 1 => probe.xpForLevel = 0
          /\ probe.level = 2 => probe.xpForLevel = 100
          /\ probe.level = 3 => probe.xpForLevel = 115

\* C19: for every command, every retry count and every set of unlocked
\* badges calculateSuccessRate lies in [0.1, 1.0]; with the badges fixed it
\* does not grow with the retry count; without badges it is
\* max(0.1, base - 0.1 * r); and after three more failures it is strictly
\* lower unless base - 0.1 * r already was at the floor of 0.1.
C19_RateBounds ==
    (probe.kind = "rate" /\ probe.called)
       => /\ probe.rate >= RateOne \div 10 /\ probe.rate <= RateOne
          /\ probe.rateNext <= probe.rate
          /\ probe.rateThree <= probe.rateNext
          /\ probe.badges = <<>> =>
                probe.rate = Max2(RateOne \div 10,
                                  BASE_SUCCESS_RATE(probe.command)
                                     - (RateOne \div 10) * probe.retries)
          /\ BASE_SUCCESS_RATE(probe.command) - (RateOne \div 10) * probe.retries
                > RateOne \div 10
                => probe.rateThree < probe.rate

\* the rate of a command was computed where the floor cuts it: with a
\* badge bonus, at a retry count at which base - 0.1 * r is below 0.1
C19_Witness ==
    /\ probe.kind = "rate" /\ probe.called
    /\ probe.badges # <<>>
    /\ BASE_SUCCESS_RATE(probe.command) - RETRY_PENALTY * probe.retries < 0
    /\ probe.rate > RateOne \div 10
    /\ probe.rateThree = probe.rate

\* C20: after any sequence of recordCommandAttempt, calculateSuccessRate
\* and checkCommandSuccess calls the retry counter of each command is the
\* number of failures recorded for it since its last recorded success (or
\* since the start); only recordCommandAttempt changes a counter, and only
\* the counter of the command it is given.
C20_CounterIsFailuresSinceSuccess ==
    probe.kind = "handlers" =>
       \A c \in Commands : retries[c] = probe.failures[c]

\* the counter of one command was reset by a success while the counter of
\* another command kept its two failures, and a rate was computed after it
C20_Witness ==
    /\ probe.kind = "handlers"
    /\ probe.call = "calculateSuccessRate"
    /\ retries["scan"] = 0 /\ retries["decrypt"] = 2 /\ retries["bruteforce"] = 1

\* C21: a call of unlockBadge or unlockCollectible with an id (or a type)
\* that is not in the registry is a silent no-op: the stored unlocked lists
\* are what they were before the call and no event was emitted.
C21_UnknownIdIsNoOp ==
    (probe.kind = "registry" /\ probe.op # "none" /\ ~probe.known)
       => /\ probe.badges = probe.before.badges
          /\ probe.collections = probe.before.collections
          /\ probe.events = 0

\* C22: calculateScore is floor((1000 + timeBonus + effBonus) * multiplier)
\* with timeBonus 500 / 300 / 100 / 0 for timeTaken up to 0.5 / 0.75 / 1.0
\* times the estimate (boundaries included) / above it, effBonus
\* 300 / 150 / 50 / 0 for 0 / 1 / 2 / more retries and multiplier
\* 1.0 / 1.5 / 2.0 / 3.0 for easy / medium / hard / very_hard, 1.0 otherwise.
C22_ScoreFormula ==
    (probe.kind = "score" /\ probe.called)
       => LET t == probe.timeTaken
              e == probe.mission.timeLimit
              timeBonus == CASE 2 * t <= e     -> 500
                             [] 2 * t > e /\ 4 * t <= 3 * e -> 300
                             [] 4 * t > 3 * e /\ t <= e    -> 100
                             [] t > e          -> 0
              effBonus == CASE probe.retries = 0 -> 300
                            [] probe.retries = 1 -> 150
                            [] probe.retries = 2 -> 50
                            [] probe.retries > 2 -> 0
              tenths == CASE probe.mission.difficulty = "medium"    -> 15
                          [] probe.mission.difficulty = "hard"      -> 20
                          [] probe.mission.difficulty = "very_hard" -> 30
                          [] OTHER                                  -> 10
              total == (1000 + timeBonus + effBonus) * tenths
          IN  /\ 10 * probe.score <= total
              /\ total < 10 * (probe.score + 1)

\* the scorer's example: a hard mission, no retries, finished at exactly
\* half of the estimate (the boundary of "very fast") scores 3600
C22_Witness ==
    /\ probe.kind = "score" /\ probe.called
    /\ probe.mission.difficulty = "hard"
    /\ probe.retries = 0
    /\ 2 * probe.timeTaken = probe.mission.timeLimit
    /\ probe.score = 3600

\* C23: applyBadgeEffects returns the same six multipliers for every
\* ordering of the same set of unlocked badge ids.
C23_EffectsIgnoreOrder ==
    (probe.kind = "effects" /\ probe.called)
       => probe.effectsReordered = probe.effects

\* two badges with a factor for the same key (xpBonus) were read in both
\* orders, with a third badge between or around them
C23_Witness ==
    /\ probe.kind = "effects" /\ probe.called
    /\ Len(probe.badges) = 3
    /\ probe.badges[1] = "hacker_badge" /\ probe.badges[3] = "elite_hacker"
    /\ probe.reordered[1] = "elite_hacker" /\ probe.reordered[2] = "hacker_badge"
    /\ probe.effects["xpBonus"] = 13200
    /\ probe.effects["allSuccessRate"] = 11500

\* C24: an emission (EventBus.emit, or StateManager.notify through set)
\* calls the subscribers registered at its start in registration order, all
\* of them also when one of them throws, and no exception reaches the
\* emitter.
C24_DeliveryInOrderDespiteThrow ==
    (probe.kind = "bus" /\ probe.op = "emit")
       => /\ probe.b.log = probe.before
          /\ ~probe.escaped

\* an emission in which the first of three subscribers threw
C24_Witness ==
    /\ probe.kind = "bus" /\ probe.op = "emit"
    /\ probe.component = "StateManager"
    /\ Len(probe.registered) = 3
    /\ probe.registered[1].kind = "throws"
    /\ probe.registered[3].kind = "plain"
    /\ probe.b.log = <<1, 2, 3>>

\* C25: the callback of a listener registered with once is called for the
\* first emission after its registration and never again - also when it
\* throws and when it emits the same event itself.
C25_OnceCalledOnce ==
    probe.kind = "bus" =>
       \A id \in 1..Len(probe.registered) :
          probe.registered[id].once => probe.b.calls[id] <= 1

\* C26: the result of one command completes steps only in missions that
\* were active when the command's matching started: a mission that the
\* same call unlocks has none of its steps completed by it.
C26_OnlyMissionsActiveAtCall ==
    [][last'.op = "resolve"
          => \A p \in flippedSteps : st.missions[p[1]].status = "active"]_vars

\* C27: for the daily challenge of the session the reward XP is emitted at
\* most once and the day's dailyCompletions is raised by the challenge at
\* most once, however many missions are completed afterwards.
\* g.dailyXp counts the runs of completeDailyChallenge that reach the
\* reward: each raises dailyCompletions once and emits xp:add once.
C27_DailyRewardAtMostOnce == g.dailyXp <= 1

\* C28: once an XP award has completed, every milestone level M (5, 10,
\* ..., 30) up to the stored level has its reward in unlockedItems - also
\* when one award raised the level past M.
C28_MilestonesUpToLevel ==
    (probe.kind = "award" /\ probe.awards >= 1)
       => \A M \in MilestoneLevels :
             M <= st.level => Includes(st.unlockedItems, MilestoneItem(M))

\* C29: with bruteforce invocations overlapping in any way, the bruteforce
\* retry counter never exceeds MAX_RETRIES, and once it is MAX_RETRIES it
\* does not change any more.
C29_BruteforceCounterCapped ==
    /\ [](retries["bruteforce"] <= MAX_RETRIES)
    /\ [][retries["bruteforce"] = MAX_RETRIES
            => retries'["bruteforce"] = MAX_RETRIES]_vars

\* mission i is locked behind a completed predecessor while its type
\* requirements are satisfied
unlockable(i) ==
    /\ i <= Len(st.missions)
    /\ st.missions[i].status = "locked"
    /\ st.missions[i - 1].status = "completed"
    /\ checkMissionTypeRequirements(st.missions[i].type, st)

\* C30: a locked mission whose immediate predecessor is completed and whose
\* type requirements are satisfied (at the completion or at any later
\* point) eventually becomes active as the player keeps playing.
C30_UnlockableBecomesActive ==
    \A i \in 2..Len(MenuChain) :
       unlockable(i) ~> (i <= Len(st.missions) /\ st.missions[i].status = "active")

=============================================================================
